---- MODULE Spec2Model ----
(***************************************************************************)
(* Model of the multi-source resolution pipeline of cattgram:              *)
(*   scraper/mod.rs        fetch_post_data (the orchestrator)              *)
(*   scraper/cache.rs      get_cached / set_cached over the CACHE KV store *)
(*   scraper/embed_page.rs fetch_embed_page and the JSON-node extractors   *)
(*   scraper/graphql.rs    fetch_graphql (direct, then routed)             *)
(*   scraper/papi.rs       fetch_papi (direct, then routed)                *)
(*   scraper/proxy.rs      proxy_fetch (relay or direct)                   *)
(*   utils/instagram.rs    the shortcode codec, extract_post_id            *)
(*   utils/escape.rs       escape_html                                     *)
(*   handlers/embed.rs     handle, resolve_share_url                       *)
(*   templates/embed_html.rs render_embed (the media item it selects)      *)
(* Upstream answers are inputs chosen by the environment from small sets.  *)
(***************************************************************************)
EXTENDS Integers, Sequences, FiniteSets, TLC

VARIABLES
    kv,        \* the CACHE KV namespace: key -> Option([value, expiration])
    now,       \* wall clock, in seconds
    env,       \* configured secrets: [IG_COOKIE, PROXY_USERNAME, PROXY_PASSWORD]
    pc,        \* per resolution: the await point fetch_post_data is at
    post_id,   \* per resolution: the post_id argument
    embed_fallback, \* per resolution: the local `embed_fallback`
    data,      \* per resolution: the record about to be cached and returned
    ret,       \* per resolution: what get_cached and each strategy returned
    log,       \* per resolution: the requests and cache writes issued, in order
    result,    \* per resolution: the value fetch_post_data returned
    calls,     \* calls of fetch_post_data made so far
    hist,      \* per resolution, history: the entry the store held at the lookup,
               \* the extraction that shaped the embed record, when set_cached ran
    puts,      \* history, per key: the unreturned resolution whose set_cached ran
               \* last, and the one whose write the store holds (0: none of them)
    hpc,       \* handlers/embed.rs: the await point `handle` is at
    locals,    \* the locals of `handle`: [post_id, share_path, bot, direct, img_index]
    current_url, \* resolve_share_url: the local `current_url`
    hops,      \* resolve_share_url: iterations of the redirect loop begun
    sent,      \* resolve_share_url: the URLs requested, in order
    got,       \* resolve_share_url: the answers to those requests, in order
    resolved,  \* the value resolve_share_url returned
    fetches,   \* calls of fetch_post_data made by `handle`
    response,  \* the answer of `handle`
    arg,       \* a function under test: its argument
    out        \* a function under test: its value

scraper_vars == <<kv, now, env, pc, post_id, embed_fallback, data, ret, log, result,
                  calls, hist, puts>>

handler_vars ==
    <<hpc, locals, current_url, hops, sent, got, resolved, fetches, response>>

unit_vars == <<arg, out>>

vars == <<scraper_vars, handler_vars, unit_vars>>

----------------------------------------------------------------------------
(* Bounds of the model *)

NumProcs == 2      \* resolutions that may be in flight at once
MaxCalls == 2      \* calls of fetch_post_data in one behaviour
MaxTicks == 1      \* clock advances

(* Program constants *)

TTL_SECONDS == 86400

Procs == 1..NumProcs
TickSeconds == TTL_SECONDS

----------------------------------------------------------------------------
(* Option<T> and Result<T> *)

None == <<>>
Some(x) == <<x>>
IsSome(o) == o /= <<>>
Unwrap(o) == o[1]

Ok(v) == [tag |-> "Ok", val |-> v]
Err == [tag |-> "Err", val |-> None]

\* the call did not return: the thread panicked
Panic == [tag |-> "Panic", val |-> None]

\* Result<Option<T>> carries a value: Ok(Some(_))
HasRecord(r) == r.tag = "Ok" /\ IsSome(r.val)

----------------------------------------------------------------------------
(* scraper/types.rs *)

Media(t, u, th, w, h) ==
    [media_type |-> t, url |-> u, thumbnail_url |-> th, width |-> w, height |-> h]

InstaData(id, user, cap, media, likes, comments, isv, views, ts) ==
    [post_id |-> id, username |-> user, caption |-> cap, media |-> media,
     like_count |-> likes, comment_count |-> comments, is_video |-> isv,
     video_view_count |-> views, timestamp |-> ts]

----------------------------------------------------------------------------
(* serde_json::Value.  Every JSON value carries its type, so that as_str,  *)
(* as_u64, as_bool, as_array and get answer None on a value of another     *)
(* type, as serde_json does.                                               *)

JNull == [t |-> "null", v |-> <<>>]
JStr(s) == [t |-> "str", v |-> s]
JNum(n) == [t |-> "num", v |-> n]
JBool(b) == [t |-> "bool", v |-> b]
JArr(a) == [t |-> "arr", v |-> a]
JObj(f) == [t |-> "obj", v |-> f]

\* Value::get(key): Some only on an object that has the key
Get(j, k) ==
    LET x == j
    IN  IF x.t = "obj"
        THEN (IF k \in DOMAIN x.v THEN Some(x.v[k]) ELSE None)
        ELSE None

\* opt.and_then(|x| x.get(key))
AndThenGet(o, k) == LET x == o IN IF IsSome(x) THEN Get(Unwrap(x), k) ELSE None

AsStr(o) ==
    LET x == o IN IF IsSome(x) /\ Unwrap(x).t = "str" THEN Some(Unwrap(x).v) ELSE None

AsBool(o) ==
    LET x == o IN IF IsSome(x) /\ Unwrap(x).t = "bool" THEN Some(Unwrap(x).v) ELSE None

AsArray(o) ==
    LET x == o IN IF IsSome(x) /\ Unwrap(x).t = "arr" THEN Some(Unwrap(x).v) ELSE None

\* as_u64: None on a negative number (the numbers of the model are below 2^31)
AsU64(o) ==
    LET x == o
    IN  IF IsSome(x) /\ Unwrap(x).t = "num"
        THEN (IF Unwrap(x).v >= 0 THEN Some(Unwrap(x).v) ELSE None)
        ELSE None

\* arr.first()
First(o) ==
    LET x == o IN IF IsSome(x) /\ Len(Unwrap(x)) > 0 THEN Some(Unwrap(x)[1]) ELSE None

UnwrapOr(o, d) == LET x == o IN IF IsSome(x) THEN Unwrap(x) ELSE d

\* .map(|w| w as u32): below 2^31 the cast keeps the value
AsU32(o) == LET x == o IN IF IsSome(x) THEN Some(Unwrap(x)) ELSE None

----------------------------------------------------------------------------
(* scraper/embed_page.rs: shaping a shortcode_media node into a record *)

media_from_node(node) ==
    LET is_video == UnwrapOr(AsBool(Get(node, "is_video")), FALSE)
        width == AsU32(AsU64(AndThenGet(Get(node, "dimensions"), "width")))
        height == AsU32(AsU64(AndThenGet(Get(node, "dimensions"), "height")))
    IN  IF is_video
        THEN Media("Video", UnwrapOr(AsStr(Get(node, "video_url")), ""),
                   AsStr(Get(node, "display_url")), width, height)
        ELSE Media("Image", UnwrapOr(AsStr(Get(node, "display_url")), ""),
                   None, width, height)

\* build_media_list, were the children of a carousel collected last first
build_media_list_Reversed(media) ==
    LET children == AsArray(AndThenGet(Get(media, "edge_sidecar_to_children"), "edges"))
    IN  IF IsSome(children)
        THEN LET kept == SelectSeq(Unwrap(children), LAMBDA edge : IsSome(Get(edge, "node")))
             IN  [i \in 1..Len(kept) |->
                     media_from_node(Unwrap(Get(kept[Len(kept) + 1 - i], "node")))]
        ELSE <<media_from_node(media)>>

build_media_list(media) ==
    LET children == AsArray(AndThenGet(Get(media, "edge_sidecar_to_children"), "edges"))
    IN  IF IsSome(children)
        THEN LET kept == SelectSeq(Unwrap(children), LAMBDA edge : IsSome(Get(edge, "node")))
             IN  [i \in 1..Len(kept) |-> media_from_node(Unwrap(Get(kept[i], "node")))]
        ELSE <<media_from_node(media)>>

parse_shortcode_media(media, id) ==
    LET username == AsStr(AndThenGet(Get(media, "owner"), "username"))
        caption == AsStr(AndThenGet(AndThenGet(First(AsArray(AndThenGet(
                       Get(media, "edge_media_to_caption"), "edges"))), "node"), "text"))
        is_video == UnwrapOr(AsBool(Get(media, "is_video")), FALSE)
        timestamp == UnwrapOr(AsU64(Get(media, "taken_at_timestamp")), 0)
        like_count == AsU64(AndThenGet(Get(media, "edge_media_preview_like"), "count"))
        comment_count == AsU64(AndThenGet(Get(media, "edge_media_to_comment"), "count"))
        video_view_count == AsU64(Get(media, "video_view_count"))
    IN  IF ~IsSome(username)
        THEN None
        ELSE Some(InstaData(id, Unwrap(username), caption, build_media_list(media),
                            like_count, comment_count, is_video, video_view_count,
                            timestamp))

extract_from_json(html, id) ==
    IF IsSome(html.shortcode_media)
    THEN parse_shortcode_media(Unwrap(html.shortcode_media), id)
    ELSE None

extract_from_context_json(html, id) ==
    LET gql_data == AndThenGet(html.contextJSON, "gql_data")
        media == IF IsSome(AndThenGet(gql_data, "shortcode_media"))
                 THEN AndThenGet(gql_data, "shortcode_media")
                 ELSE AndThenGet(gql_data, "xdt_shortcode_media")
    IN  IF IsSome(media) THEN parse_shortcode_media(Unwrap(media), id) ELSE None

\* extract_from_html, were the image given the dimensions of the embed frame
extract_from_html_WithDims(html, id) ==
    IF ~IsSome(html.EmbeddedMediaImage)
    THEN None
    ELSE Some(InstaData(id, UnwrapOr(html.UsernameText, "unknown"), html.CaptionText,
                        <<Media("Image", Unwrap(html.EmbeddedMediaImage), None,
                                Some(640), Some(640))>>,
                        None, None, FALSE, None, 0))

extract_from_html(html, id) ==
    IF ~IsSome(html.EmbeddedMediaImage)
    THEN None
    ELSE Some(InstaData(id, UnwrapOr(html.UsernameText, "unknown"), html.CaptionText,
                        <<Media("Image", Unwrap(html.EmbeddedMediaImage), None, None, None)>>,
                        None, None, FALSE, None, 0))

is_video_blocked(html) == html.WatchOnInstagram \/ html.EmbeddedMediaVideo

----------------------------------------------------------------------------
(* utils/instagram.rs: the shortcode codec.  Characters are code points. *)

INSTAGRAM_BASE64 ==
    <<65, 66, 67, 68, 69, 70, 71, 72, 73, 74, 75, 76, 77, 78, 79, 80, 81, 82, 83, 84,
      85, 86, 87, 88, 89, 90,
      97, 98, 99, 100, 101, 102, 103, 104, 105, 106, 107, 108, 109, 110, 111, 112, 113,
      114, 115, 116, 117, 118, 119, 120, 121, 122,
      48, 49, 50, 51, 52, 53, 54, 55, 56, 57, 45, 95>>

\* INSTAGRAM_BASE64.iter().position(|&c| c == ch as u8), 0-based
Position(ch) ==
    LET hits == {i \in 1..Len(INSTAGRAM_BASE64) : INSTAGRAM_BASE64[i] = ch % 256}
    IN  IF hits = {} THEN None ELSE Some((CHOOSE i \in hits : TRUE) - 1)

\* A u64 is held as its base-64 numeral (most significant digit first, no
\* leading zero, 0 as the empty numeral), which is exact at every width.
\* id.checked_mul(64): None when id * 64 >= 2^64, i.e. id >= 16 * 64^9
checked_mul_64(id) ==
    IF Len(id) > 10 \/ (Len(id) = 10 /\ id[1] >= 16)
    THEN None
    ELSE Some(IF id = <<>> THEN <<>> ELSE Append(id, 0))

\* (a multiple of 64).checked_add(pos) with pos < 64: never overflows
checked_add(id, pos) ==
    IF id = <<>>
    THEN Some(IF pos = 0 THEN <<>> ELSE <<pos>>)
    ELSE Some([id EXCEPT ![Len(id)] = pos])

RECURSIVE code_to_mediaid_from(_, _, _)
code_to_mediaid_from(code, i, id) ==
    IF i > Len(code)
    THEN Some(id)
    ELSE LET pos == Position(code[i])
             shifted == checked_mul_64(id)
         IN  IF ~IsSome(pos) THEN None
             ELSE IF ~IsSome(shifted) THEN None
             ELSE code_to_mediaid_from(code, i + 1,
                                       Unwrap(checked_add(Unwrap(shifted), Unwrap(pos))))

code_to_mediaid(code) == code_to_mediaid_from(code, 1, <<>>)

----------------------------------------------------------------------------
(* scraper/cache.rs, and the serde derive of scraper/types.rs *)

\* "post:"
KeyPrefix == <<112, 111, 115, 116, 58>>

\* cache_key that leaves the post id out of the key
cache_key_Shared(id) == KeyPrefix

cache_key(id) == KeyPrefix \o id

\* serde_json::to_string: Option fields that are None are skipped
OptKeys(rec, names) == {k \in names : IsSome(rec[k])}

SerializeMedia(m) ==
    JObj([k \in {"type", "url"} \cup OptKeys(m, {"thumbnail_url", "width", "height"}) |->
            CASE k = "type" -> JStr(IF m.media_type = "Image" THEN "image" ELSE "video")
              [] k = "url" -> JStr(m.url)
              [] k = "thumbnail_url" -> JStr(Unwrap(m.thumbnail_url))
              [] k = "width" -> JNum(Unwrap(m.width))
              [] k = "height" -> JNum(Unwrap(m.height))])

Serialize(d) ==
    JObj([k \in {"post_id", "username", "media", "is_video", "timestamp"}
               \cup OptKeys(d, {"caption", "like_count", "comment_count", "video_view_count"}) |->
            CASE k = "post_id" -> JStr(d.post_id)
              [] k = "username" -> JStr(d.username)
              [] k = "caption" -> JStr(Unwrap(d.caption))
              [] k = "media" -> JArr([i \in 1..Len(d.media) |-> SerializeMedia(d.media[i])])
              [] k = "like_count" -> JNum(Unwrap(d.like_count))
              [] k = "comment_count" -> JNum(Unwrap(d.comment_count))
              [] k = "is_video" -> JBool(d.is_video)
              [] k = "video_view_count" -> JNum(Unwrap(d.video_view_count))
              [] k = "timestamp" -> JNum(d.timestamp)])

\* serde_json::from_str::<Media>: type and url required, the rest optional
MediaWellFormed(j) ==
    /\ j.t = "obj"
    /\ IsSome(AsStr(Get(j, "type"))) /\ IsSome(AsStr(Get(j, "url")))
    /\ Unwrap(AsStr(Get(j, "type"))) \in {"image", "video"}

DeserializeMedia(j) ==
    Media(IF Unwrap(AsStr(Get(j, "type"))) = "image" THEN "Image" ELSE "Video",
          Unwrap(AsStr(Get(j, "url"))),
          AsStr(Get(j, "thumbnail_url")),
          AsU64(Get(j, "width")),
          AsU64(Get(j, "height")))

WellFormed(j) ==
    /\ j.t = "obj"
    /\ IsSome(AsStr(Get(j, "post_id"))) /\ IsSome(AsStr(Get(j, "username")))
    /\ IsSome(AsArray(Get(j, "media"))) /\ IsSome(AsBool(Get(j, "is_video")))
    /\ IsSome(AsU64(Get(j, "timestamp")))
    /\ \A i \in 1..Len(Unwrap(AsArray(Get(j, "media")))) :
           MediaWellFormed(Unwrap(AsArray(Get(j, "media")))[i])

\* serde_json::from_str::<InstaData>: Err on a value that is not an InstaData
Deserialize(j) ==
    IF ~WellFormed(j)
    THEN Err
    ELSE LET media == Unwrap(AsArray(Get(j, "media")))
         IN  Ok(Some(InstaData(
                 Unwrap(AsStr(Get(j, "post_id"))),
                 Unwrap(AsStr(Get(j, "username"))),
                 AsStr(Get(j, "caption")),
                 [i \in 1..Len(media) |-> DeserializeMedia(media[i])],
                 AsU64(Get(j, "like_count")),
                 AsU64(Get(j, "comment_count")),
                 Unwrap(AsBool(Get(j, "is_video"))),
                 AsU64(Get(j, "video_view_count")),
                 Unwrap(AsU64(Get(j, "timestamp"))))))

\* kv.get(key): the stored value unless the entry has expired
KvGet(store, key, t) ==
    IF IsSome(store[key]) /\ t < Unwrap(store[key]).expiration
    THEN Some(Unwrap(store[key]).value)
    ELSE None

\* kv.put(key, json) without the expiration_ttl: the entry never expires in
\* the window the model looks at
KvPut_NoTtl(store, key, json, t) ==
    [store EXCEPT ![key] = Some([value |-> json, expiration |-> t + 4 * TTL_SECONDS])]

\* kv.put(key, json).expiration_ttl(TTL_SECONDS)
KvPut(store, key, json, t) ==
    [store EXCEPT ![key] = Some([value |-> json, expiration |-> t + TTL_SECONDS])]

\* get_cached that reads the store and then reports a miss whatever it read
get_cached_NoHit(id, store, t, store_ok) ==
    IF ~store_ok THEN Err ELSE Ok(None)

\* get_cached: Err when the store cannot be read or the value does not deserialize
get_cached(id, store, t, store_ok) ==
    IF ~store_ok
    THEN Err
    ELSE LET json == KvGet(store, cache_key(id), t)
         IN  IF IsSome(json) THEN Deserialize(Unwrap(json)) ELSE Ok(None)

\* set_cached that leaves an entry it finds in place (first writer wins)
set_cached_FirstWins(id, d, store, t, store_ok) ==
    IF store_ok /\ ~IsSome(store[cache_key(id)])
    THEN KvPut(store, cache_key(id), Serialize(d), t)
    ELSE store

\* set_cached: the store after the call (unchanged when the put errors)
set_cached(id, d, store, t, store_ok) ==
    IF store_ok THEN KvPut(store, cache_key(id), Serialize(d), t) ELSE store

----------------------------------------------------------------------------
(* Network: a response is a failed send, or a status with a body whose     *)
(* text may fail to be read.                                               *)

SendErr == [send |-> "err", status |-> 0, text |-> None]

\* the answer drawn for a request that is never issued
Unasked == SendErr
Resp(status, text) == [send |-> "ok", status |-> status, text |-> text]

\* a request issued by a resolution
Request(api, via, route) == [api |-> api, via |-> via, route |-> route]

\* scraper/proxy.rs proxy_fetch: through the relay iff both credentials are set
proxy_route(e) == IF e.PROXY_USERNAME /\ e.PROXY_PASSWORD THEN "relay" ELSE "direct"

proxy_fetch(api, e) == Request(api, "proxy_fetch", proxy_route(e))

direct_fetch(api) == Request(api, "direct", "direct")

\* text.contains(marker) on an API body
Contains(text, marker) == marker \in text.markers

\* `&text[..text.len().min(n)]`, the body prefix a handler logs: the slice
\* panics when byte n of the text lies inside a multi-byte character
SlicePanics(text, n) == n \in text.cut

----------------------------------------------------------------------------
(* scraper/embed_page.rs fetch_embed_page *)

fetch_embed_page(id, resp) ==
    IF resp.send = "err" \/ ~IsSome(resp.text)
    THEN Err
    ELSE IF resp.status /= 200
    THEN (IF SlicePanics(Unwrap(resp.text), 500) THEN Panic ELSE Ok(None))
    ELSE LET html == Unwrap(resp.text)
             video_blocked == is_video_blocked(html)
             a == extract_from_json(html, id)
             b == extract_from_context_json(html, id)
             c == extract_from_html(html, id)
             found == IF IsSome(a) THEN a ELSE IF IsSome(b) THEN b ELSE c
         IN  IF IsSome(found)
             THEN Ok(Some([data |-> Unwrap(found), video_blocked |-> video_blocked]))
             ELSE IF SlicePanics(html, 500) THEN Panic ELSE Ok(None)

\* which extraction of fetch_embed_page shaped the record it returns
embed_path(id, resp) ==
    IF resp.send = "err" \/ ~IsSome(resp.text) \/ resp.status /= 200
    THEN "none"
    ELSE LET html == Unwrap(resp.text)
         IN  IF IsSome(extract_from_json(html, id)) THEN "json"
             ELSE IF IsSome(extract_from_context_json(html, id)) THEN "contextJSON"
             ELSE IF IsSome(extract_from_html(html, id)) THEN "html"
             ELSE "none"

----------------------------------------------------------------------------
(* scraper/graphql.rs *)

parse_graphql_response(text, id) ==
    IF Contains(text, "require_login") \/ Contains(text, "not-logged-in")
    THEN None
    ELSE IF ~IsSome(text.json)
    THEN None
    ELSE LET d == Get(Unwrap(text.json), "data")
             media_obj == IF IsSome(AndThenGet(d, "xdt_shortcode_media"))
                          THEN AndThenGet(d, "xdt_shortcode_media")
                          ELSE AndThenGet(d, "shortcode_media")
         IN  IF ~IsSome(media_obj) THEN None
             ELSE IF Unwrap(media_obj).t = "null" THEN None
             ELSE parse_shortcode_media(Unwrap(media_obj), id)

\* the direct attempt of fetch_graphql: whether the function ends on it (a
\* record was parsed, reading the body failed, or logging it panicked), and
\* with what
graphql_direct(id, direct) ==
    IF direct.send = "ok" /\ ~IsSome(direct.text)
    THEN [returns |-> TRUE, ret |-> Err]
    ELSE IF direct.send = "ok" /\ SlicePanics(Unwrap(direct.text), 200)
    THEN [returns |-> TRUE, ret |-> Panic]
    ELSE LET parsed == IF direct.send = "err" THEN None
                       ELSE parse_graphql_response(Unwrap(direct.text), id)
         IN  [returns |-> IsSome(parsed), ret |-> Ok(parsed)]

\* [ret: what fetch_graphql returns, requests: the requests it issued]
fetch_graphql(id, e, direct, proxied) ==
    LET d == direct_fetch("graphql")
        p == proxy_fetch("graphql", e)
        first == graphql_direct(id, direct)
    IN  IF first.returns
        THEN [ret |-> first.ret, requests |-> <<d>>]
        ELSE IF proxied.send = "err" \/ ~IsSome(proxied.text)
        THEN [ret |-> Err, requests |-> <<d, p>>]
        ELSE IF SlicePanics(Unwrap(proxied.text), 200)
        THEN [ret |-> Panic, requests |-> <<d, p>>]
        ELSE [ret |-> Ok(parse_graphql_response(Unwrap(proxied.text), id)),
              requests |-> <<d, p>>]

----------------------------------------------------------------------------
(* scraper/papi.rs *)

parse_papi_media(node) ==
    LET video_versions == AsArray(Get(node, "video_versions"))
        candidates == AsArray(AndThenGet(Get(node, "image_versions2"), "candidates"))
        thumbnail_url == AsStr(AndThenGet(First(candidates), "url"))
    IN  IF IsSome(First(video_versions))
        THEN LET best == First(video_versions)
             IN  Some(Media("Video", UnwrapOr(AsStr(AndThenGet(best, "url")), ""),
                            thumbnail_url,
                            AsU32(AsU64(AndThenGet(best, "width"))),
                            AsU32(AsU64(AndThenGet(best, "height")))))
        ELSE IF ~IsSome(First(candidates))
        THEN None
        ELSE LET best == First(candidates)
             IN  Some(Media("Image", UnwrapOr(AsStr(AndThenGet(best, "url")), ""),
                            None,
                            AsU32(AsU64(AndThenGet(best, "width"))),
                            AsU32(AsU64(AndThenGet(best, "height")))))

parse_papi_item(item, id) ==
    LET username == UnwrapOr(AsStr(AndThenGet(Get(item, "user"), "username")), "unknown")
        caption == AsStr(AndThenGet(Get(item, "caption"), "text"))
        like_count == AsU64(Get(item, "like_count"))
        comment_count == AsU64(Get(item, "comment_count"))
        timestamp == UnwrapOr(AsU64(Get(item, "taken_at")), 0)
        carousel == AsArray(Get(item, "carousel_media"))
        media_items ==
            IF IsSome(carousel)
            THEN LET kept == SelectSeq(Unwrap(carousel),
                                       LAMBDA m : IsSome(parse_papi_media(m)))
                 IN  [i \in 1..Len(kept) |-> Unwrap(parse_papi_media(kept[i]))]
            ELSE IF IsSome(parse_papi_media(item))
            THEN <<Unwrap(parse_papi_media(item))>>
            ELSE <<>>
        is_video == \/ IsSome(Get(item, "video_versions"))
                    \/ \E i \in 1..Len(media_items) : media_items[i].media_type = "Video"
        video_view_count == AsU64(Get(item, "view_count"))
    IN  Ok(Some(InstaData(id, username, caption, media_items, like_count, comment_count,
                          is_video, video_view_count, timestamp)))

\* papi_direct_fetch / papi_proxy_fetch: Ok(text) only on a 200 whose body was read
PapiText(resp) ==
    IF resp.send = "err" \/ ~IsSome(resp.text) \/ resp.status /= 200
    THEN Err
    ELSE Ok(Unwrap(resp.text))

\* papi_direct_fetch logs the first 500 bytes of the body, whatever the status
papi_direct_panics(direct) ==
    direct.send = "ok" /\ IsSome(direct.text) /\ SlicePanics(Unwrap(direct.text), 500)

\* the part of fetch_papi after the body text has been obtained: its first 200
\* bytes are logged, then it is parsed
PapiParse(text, id) ==
    LET items == AsArray(AndThenGet(text.json, "items"))
    IN  IF SlicePanics(text, 200)
        THEN Panic
        ELSE IF ~IsSome(First(items))
        THEN Ok(None)
        ELSE parse_papi_item(Unwrap(First(items)), id)

\* papi_direct_taken without the guard on the body
papi_direct_taken_AnyBody(direct) == PapiText(direct).tag = "Ok"

\* the direct attempt of fetch_papi is taken: a 200 without a login or 404 marker
papi_direct_taken(direct) ==
    LET dt == PapiText(direct)
    IN  /\ dt.tag = "Ok"
        /\ ~Contains(dt.val, "not-logged-in")
        /\ ~Contains(dt.val, "Page Not Found")

\* papi_skipped, were the IG_COOKIE secret not required
papi_skipped_NoCookieNeeded(id, e) == ~IsSome(code_to_mediaid(id))

\* fetch_papi returns before any request: no credential, or no media id
papi_skipped(id, e) == ~e.IG_COOKIE \/ ~IsSome(code_to_mediaid(id))

\* [ret: what fetch_papi returns, requests: the requests it issued]
fetch_papi(id, e, direct, proxied) ==
    LET d == direct_fetch("papi")
        p == proxy_fetch("papi", e)
        pt == PapiText(proxied)
    IN  IF papi_skipped(id, e)
        THEN [ret |-> Ok(None), requests |-> <<>>]
        ELSE IF papi_direct_panics(direct)
        THEN [ret |-> Panic, requests |-> <<d>>]
        ELSE IF papi_direct_taken(direct)
        THEN [ret |-> PapiParse(PapiText(direct).val, id), requests |-> <<d>>]
        ELSE IF pt.tag = "Err"
        THEN [ret |-> Ok(None), requests |-> <<d, p>>]
        ELSE [ret |-> PapiParse(pt.val, id), requests |-> <<d, p>>]

----------------------------------------------------------------------------
(* scraper/mod.rs: the classification of the embed-page result *)

is_html_fallback(d) ==
    /\ Len(d.media) = 1
    /\ d.media[1].media_type = "Image"
    /\ ~IsSome(d.media[1].width)
    /\ ~IsSome(d.media[1].height)

json_extraction(d) ==
    d.is_video \/ \E i \in 1..Len(d.media) : d.media[i].media_type = "Video"

has_video_url(d) ==
    \E i \in 1..Len(d.media) : d.media[i].media_type = "Video" /\ d.media[i].url /= ""

\* the first branch of the match: the embed data is examined at all
EmbedExamined(d, video_blocked) ==
    ~video_blocked /\ (json_extraction(d) \/ has_video_url(d) \/ Len(d.media) > 0)

\* the classification with a video-blocked record taken as usable at once
EmbedComplete_BlockedIsUsable(r) ==
    /\ HasRecord(r)
    /\ \/ Unwrap(r.val).video_blocked
       \/ /\ EmbedExamined(Unwrap(r.val).data, FALSE)
          /\ ~is_html_fallback(Unwrap(r.val).data)

\* the embed data is cached and returned at once
EmbedComplete(r) ==
    /\ HasRecord(r)
    /\ EmbedExamined(Unwrap(r.val).data, Unwrap(r.val).video_blocked)
    /\ ~is_html_fallback(Unwrap(r.val).data)

\* the value `embed_fallback` holds after the match
EmbedFallback(r) ==
    IF ~HasRecord(r) THEN None
    ELSE LET d == Unwrap(r.val).data
             vb == Unwrap(r.val).video_blocked
         IN  IF EmbedExamined(d, vb)
             THEN (IF is_html_fallback(d) THEN Some(d) ELSE None)
             ELSE IF vb THEN Some(d) ELSE None

----------------------------------------------------------------------------
(* Upstream payloads the environment may answer with *)

Owner == JObj([username |-> JStr("alice")])

Dimensions(w, h) == JObj([width |-> JNum(w), height |-> JNum(h)])

ImageNode ==
    JObj([owner |-> Owner, is_video |-> JBool(FALSE), display_url |-> JStr("img.jpg"),
          dimensions |-> Dimensions(1080, 1080),
          edge_media_preview_like |-> JObj([count |-> JNum(7)])])

ImageNoDims ==
    JObj([owner |-> Owner, is_video |-> JBool(FALSE), display_url |-> JStr("img.jpg")])

VideoNode ==
    JObj([owner |-> Owner, is_video |-> JBool(TRUE), video_url |-> JStr("clip.mp4"),
          display_url |-> JStr("poster.jpg"), dimensions |-> Dimensions(640, 480),
          taken_at_timestamp |-> JNum(1700000000)])

QueryVideoNode ==
    JObj([owner |-> Owner, is_video |-> JBool(TRUE), video_url |-> JStr("query.mp4"),
          display_url |-> JStr("poster.jpg"), dimensions |-> Dimensions(640, 480),
          video_view_count |-> JNum(9)])

EmptyCarousel(is_video) ==
    JObj([owner |-> Owner, is_video |-> JBool(is_video),
          edge_sidecar_to_children |-> JObj([edges |-> JArr(<<>>)])])

NoOwnerNode == JObj([is_video |-> JBool(FALSE), display_url |-> JStr("img.jpg")])

Page(sm, ctx, img, user, watch, embedded_video) ==
    [shortcode_media |-> sm, contextJSON |-> ctx, EmbeddedMediaImage |-> img,
     UsernameText |-> user, CaptionText |-> None,
     WatchOnInstagram |-> watch, EmbeddedMediaVideo |-> embedded_video, cut |-> {}]

\* the body with a multi-byte character across byte n
SplitAt(text, n) == [text EXCEPT !.cut = {n}]

EmbedPages ==
    { Page(Some(ImageNode), None, None, None, FALSE, FALSE),
      Page(Some(ImageNoDims), None, None, None, FALSE, FALSE),
      Page(None, Some(JObj([gql_data |-> JObj([shortcode_media |-> VideoNode])])),
           None, None, FALSE, FALSE),
      Page(Some(VideoNode), None, None, None, TRUE, FALSE),
      Page(None, None, Some("thumb.jpg"), Some("alice"), FALSE, FALSE),
      Page(Some(NoOwnerNode), None, Some("thumb.jpg"), Some("alice"), FALSE, FALSE),
      Page(None, None, Some("thumb.jpg"), Some("alice"), FALSE, TRUE),
      Page(Some(EmptyCarousel(FALSE)), None, None, None, FALSE, FALSE),
      Page(Some(EmptyCarousel(TRUE)), None, None, None, FALSE, FALSE),
      Page(None, None, None, None, FALSE, FALSE) }

EmbedResponses ==
    {SendErr, Resp(200, None), Resp(404, Some(Page(None, None, None, None, FALSE, FALSE))),
     Resp(404, Some(SplitAt(Page(None, None, None, None, FALSE, FALSE), 500))),
     Resp(200, Some(SplitAt(Page(None, None, None, None, FALSE, FALSE), 500)))}
    \cup {Resp(200, Some(page)) : page \in EmbedPages}

ApiText(markers, json) == [markers |-> markers, json |-> json, cut |-> {}]

GraphqlTexts ==
    { ApiText({}, Some(JObj([data |-> JObj([xdt_shortcode_media |-> QueryVideoNode])]))),
      ApiText({}, Some(JObj([data |-> JObj([xdt_shortcode_media |-> JNull])]))),
      ApiText({"require_login"}, None),
      ApiText({}, None) }

GraphqlResponses ==
    {SendErr, Resp(200, None)}
    \cup {Resp(200, Some(text)) : text \in GraphqlTexts}
    \cup {Resp(200, Some(SplitAt(ApiText({}, Some(JObj([data |-> JNull]))), 200)))}
    \cup {Resp(500, Some(ApiText({}, Some(JObj([data |->
                                   JObj([xdt_shortcode_media |-> QueryVideoNode])])))))}

PapiVideoItem ==
    JObj([user |-> JObj([username |-> JStr("bob")]),
          video_versions |-> JArr(<<JObj([url |-> JStr("papi.mp4"),
                                          width |-> JNum(720), height |-> JNum(1280)])>>),
          image_versions2 |-> JObj([candidates |-> JArr(<<JObj([url |-> JStr("papi.jpg")])>>)]),
          taken_at |-> JNum(1700000001)])

PapiBareItem == JObj([user |-> JObj([username |-> JStr("bob")])])

PapiTexts ==
    { ApiText({}, Some(JObj([items |-> JArr(<<PapiVideoItem>>)]))),
      ApiText({}, Some(JObj([items |-> JArr(<<PapiBareItem>>)]))),
      ApiText({}, Some(JObj([items |-> JArr(<<>>)]))),
      ApiText({"Page Not Found"}, Some(JObj([items |-> JArr(<<PapiVideoItem>>)]))),
      ApiText({"not-logged-in"}, None) }

PapiResponses ==
    {SendErr, Resp(403, Some(ApiText({"not-logged-in"}, None)))}
    \cup {Resp(200, Some(text)) : text \in PapiTexts}
    \cup {Resp(200, Some(SplitAt(ApiText({}, Some(JObj([items |-> JArr(<<>>)]))), n))) :
              n \in {200, 500}}

\* "BA" (media id 64) and "!" (outside the alphabet)
ValidId == <<66, 65>>

PostIds == { ValidId, <<33>> }

Keys == {cache_key(id) : id \in PostIds}

Config(cookie, user, pass) ==
    [IG_COOKIE |-> cookie, PROXY_USERNAME |-> user, PROXY_PASSWORD |-> pass]

\* which secrets are configured
Envs == {Config(TRUE, TRUE, TRUE), Config(FALSE, TRUE, FALSE), Config(TRUE, FALSE, FALSE)}

----------------------------------------------------------------------------
(* State machine: a process is one call of fetch_post_data at a time, one  *)
(* action per await point of scraper/mod.rs.                               *)

NotRun == [tag |-> "NotRun", val |-> None]

NoRet == [cache |-> NotRun, embed |-> NotRun, graphql |-> NotRun,
          papi |-> NotRun, put |-> NotRun]

CachePut == Request("cache", "set_cached", "kv")

NoHist == [seen |-> None, path |-> "none", put_at |-> None]

\* no request is being handled
HandlerIdle ==
    /\ hpc = "idle"
    /\ locals = None
    /\ current_url = None
    /\ hops = 0
    /\ sent = <<>>
    /\ got = <<>>
    /\ resolved = NotRun
    /\ fetches = 0
    /\ response = NotRun

\* the function `fn` is under test, on one of `inputs`
Given(fn, inputs) ==
    /\ arg \in {Some([fn |-> fn, x |-> i]) : i \in inputs}
    /\ out = NotRun

\* no function is under test
UnitIdle ==
    /\ arg = None
    /\ out = NotRun

\* no resolution has begun
ScraperIdle(configs) ==
    /\ kv = [k \in Keys |-> None]
    /\ now = 0
    /\ env \in configs
    /\ pc = [p \in Procs |-> "idle"]
    /\ post_id = [p \in Procs |-> <<>>]
    /\ embed_fallback = [p \in Procs |-> None]
    /\ data = [p \in Procs |-> None]
    /\ ret = [p \in Procs |-> NoRet]
    /\ log = [p \in Procs |-> <<>>]
    /\ result = [p \in Procs |-> NotRun]
    /\ calls = 0
    /\ hist = [p \in Procs |-> NoHist]
    /\ puts = [k \in Keys |-> [tried |-> 0, stored |-> 0]]

InitWith(configs) ==
    /\ ScraperIdle(configs)
    /\ HandlerIdle
    /\ UnitIdle

\* step 1 with the error of the cache lookup passed on to the caller
Call_ReadErrorFatal(p, id, store_ok, N) ==
    /\ pc[p] = "idle"
    /\ calls < N
    /\ calls' = calls + 1
    /\ hist' = [hist EXCEPT ![p].seen = KvGet(kv, cache_key(id), now)]
    /\ LET r == get_cached(id, kv, now, store_ok)
       IN  /\ post_id' = [post_id EXCEPT ![p] = id]
           /\ ret' = [ret EXCEPT ![p].cache = r]
           /\ IF HasRecord(r)
              THEN /\ pc' = [pc EXCEPT ![p] = "done"]
                   /\ result' = [result EXCEPT ![p] = Ok(r.val)]
              ELSE IF r = Err
              THEN /\ pc' = [pc EXCEPT ![p] = "done"]
                   /\ result' = [result EXCEPT ![p] = Err]
              ELSE /\ pc' = [pc EXCEPT ![p] = "embed"]
                   /\ UNCHANGED result
    /\ UNCHANGED <<kv, now, env, embed_fallback, data, log, puts>>
    /\ UNCHANGED <<handler_vars, unit_vars>>

\* fetch_post_data is called: step 1, the cache lookup
Call(p, id, store_ok, N) ==
    /\ pc[p] = "idle"
    /\ calls < N
    /\ calls' = calls + 1
    /\ hist' = [hist EXCEPT ![p].seen = KvGet(kv, cache_key(id), now)]
    /\ LET r == get_cached(id, kv, now, store_ok)
       IN  /\ post_id' = [post_id EXCEPT ![p] = id]
           /\ ret' = [ret EXCEPT ![p].cache = r]
           /\ IF HasRecord(r)
              THEN /\ pc' = [pc EXCEPT ![p] = "done"]
                   /\ result' = [result EXCEPT ![p] = Ok(r.val)]
              ELSE /\ pc' = [pc EXCEPT ![p] = "embed"]
                   /\ UNCHANGED result
    /\ UNCHANGED <<kv, now, env, embed_fallback, data, log, puts>>
    /\ UNCHANGED <<handler_vars, unit_vars>>

\* step 2 without its early return: the cascade goes on after a usable record
EmbedPage_NoReturn(p, resp) ==
    /\ pc[p] = "embed"
    /\ hist' = [hist EXCEPT ![p].path = embed_path(post_id[p], resp)]
    /\ LET r == fetch_embed_page(post_id[p], resp)
       IN  /\ ret' = [ret EXCEPT ![p].embed = r]
           /\ log' = [log EXCEPT ![p] = Append(@, proxy_fetch("embed", env))]
           /\ data' = [data EXCEPT ![p] =
                           IF EmbedComplete(r) THEN Some(Unwrap(r.val).data) ELSE @]
           /\ embed_fallback' = [embed_fallback EXCEPT ![p] = EmbedFallback(r)]
           /\ pc' = [pc EXCEPT ![p] = IF r = Panic THEN "panicked" ELSE "graphql"]
    /\ UNCHANGED <<kv, now, env, post_id, result, calls, puts>>
    /\ UNCHANGED <<handler_vars, unit_vars>>

\* step 2, the embed page
EmbedPage(p, resp) ==
    /\ pc[p] = "embed"
    /\ hist' = [hist EXCEPT ![p].path = embed_path(post_id[p], resp)]
    /\ LET r == fetch_embed_page(post_id[p], resp)
       IN  /\ ret' = [ret EXCEPT ![p].embed = r]
           /\ log' = [log EXCEPT ![p] = Append(@, proxy_fetch("embed", env))]
           /\ IF r = Panic
              THEN /\ pc' = [pc EXCEPT ![p] = "panicked"]
                   /\ UNCHANGED <<data, embed_fallback>>
              ELSE IF EmbedComplete(r)
              THEN /\ data' = [data EXCEPT ![p] = Some(Unwrap(r.val).data)]
                   /\ pc' = [pc EXCEPT ![p] = "set_cached"]
                   /\ UNCHANGED embed_fallback
              ELSE /\ embed_fallback' = [embed_fallback EXCEPT ![p] = EmbedFallback(r)]
                   /\ pc' = [pc EXCEPT ![p] = "graphql"]
                   /\ UNCHANGED data
    /\ UNCHANGED <<kv, now, env, post_id, result, calls, puts>>
    /\ UNCHANGED <<handler_vars, unit_vars>>

\* step 3 with the retained embed record preferred to the query API's
Graphql_KeepsFallback(p, direct, proxied) ==
    /\ pc[p] = "graphql"
    /\ graphql_direct(post_id[p], direct).returns => proxied = Unasked
    /\ LET g == fetch_graphql(post_id[p], env, direct, proxied)
       IN  /\ ret' = [ret EXCEPT ![p].graphql = g.ret]
           /\ log' = [log EXCEPT ![p] = @ \o g.requests]
           /\ IF g.ret = Panic
              THEN /\ pc' = [pc EXCEPT ![p] = "panicked"]
                   /\ UNCHANGED data
              ELSE IF HasRecord(g.ret)
              THEN /\ data' = [data EXCEPT ![p] =
                                  IF IsSome(embed_fallback[p])
                                  THEN embed_fallback[p] ELSE g.ret.val]
                   /\ pc' = [pc EXCEPT ![p] = "set_cached"]
              ELSE /\ pc' = [pc EXCEPT ![p] = "papi"]
                   /\ UNCHANGED data
    /\ UNCHANGED <<kv, now, env, post_id, embed_fallback, result, calls, hist, puts>>
    /\ UNCHANGED <<handler_vars, unit_vars>>

\* step 3, the query API
Graphql(p, direct, proxied) ==
    /\ pc[p] = "graphql"
    /\ graphql_direct(post_id[p], direct).returns => proxied = Unasked
    /\ LET g == fetch_graphql(post_id[p], env, direct, proxied)
       IN  /\ ret' = [ret EXCEPT ![p].graphql = g.ret]
           /\ log' = [log EXCEPT ![p] = @ \o g.requests]
           /\ IF g.ret = Panic
              THEN /\ pc' = [pc EXCEPT ![p] = "panicked"]
                   /\ UNCHANGED data
              ELSE IF HasRecord(g.ret)
              THEN /\ data' = [data EXCEPT ![p] = g.ret.val]
                   /\ pc' = [pc EXCEPT ![p] = "set_cached"]
              ELSE /\ pc' = [pc EXCEPT ![p] = "papi"]
                   /\ UNCHANGED data
    /\ UNCHANGED <<kv, now, env, post_id, embed_fallback, result, calls, hist, puts>>
    /\ UNCHANGED <<handler_vars, unit_vars>>

\* steps 4 and 5 without step 5: the retained embed record is forgotten
Papi_DropsFallback(p, direct, proxied) ==
    /\ pc[p] = "papi"
    /\ papi_skipped(post_id[p], env) => direct = Unasked
    /\ \/ papi_skipped(post_id[p], env)
       \/ papi_direct_panics(direct)
       \/ papi_direct_taken(direct) => proxied = Unasked
    /\ LET a == fetch_papi(post_id[p], env, direct, proxied)
       IN  /\ ret' = [ret EXCEPT ![p].papi = a.ret]
           /\ log' = [log EXCEPT ![p] = @ \o a.requests]
           /\ IF a.ret = Panic
              THEN /\ pc' = [pc EXCEPT ![p] = "panicked"]
                   /\ UNCHANGED <<data, result>>
              ELSE IF HasRecord(a.ret)
              THEN /\ data' = [data EXCEPT ![p] = a.ret.val]
                   /\ pc' = [pc EXCEPT ![p] = "set_cached"]
                   /\ UNCHANGED result
              ELSE /\ pc' = [pc EXCEPT ![p] = "done"]
                   /\ result' = [result EXCEPT ![p] = Ok(None)]
                   /\ UNCHANGED data
    /\ UNCHANGED <<kv, now, env, post_id, embed_fallback, calls, hist, puts>>
    /\ UNCHANGED <<handler_vars, unit_vars>>

\* steps 4 and 5 with the NotFound outcome remembered in the store
Papi_CachesNotFound(p, direct, proxied) ==
    /\ pc[p] = "papi"
    /\ papi_skipped(post_id[p], env) => direct = Unasked
    /\ \/ papi_skipped(post_id[p], env)
       \/ papi_direct_panics(direct)
       \/ papi_direct_taken(direct) => proxied = Unasked
    /\ LET a == fetch_papi(post_id[p], env, direct, proxied)
       IN  /\ ret' = [ret EXCEPT ![p].papi = a.ret]
           /\ IF a.ret = Panic
              THEN /\ pc' = [pc EXCEPT ![p] = "panicked"]
                   /\ log' = [log EXCEPT ![p] = @ \o a.requests]
                   /\ UNCHANGED <<data, result, kv>>
              ELSE IF HasRecord(a.ret)
              THEN /\ data' = [data EXCEPT ![p] = a.ret.val]
                   /\ pc' = [pc EXCEPT ![p] = "set_cached"]
                   /\ log' = [log EXCEPT ![p] = @ \o a.requests]
                   /\ UNCHANGED <<result, kv>>
              ELSE IF IsSome(embed_fallback[p])
              THEN /\ data' = [data EXCEPT ![p] = embed_fallback[p]]
                   /\ pc' = [pc EXCEPT ![p] = "set_cached"]
                   /\ log' = [log EXCEPT ![p] = @ \o a.requests]
                   /\ UNCHANGED <<result, kv>>
              ELSE /\ pc' = [pc EXCEPT ![p] = "done"]
                   /\ result' = [result EXCEPT ![p] = Ok(None)]
                   /\ kv' = KvPut(kv, cache_key(post_id[p]), JNull, now)
                   /\ log' = [log EXCEPT ![p] = Append(@ \o a.requests, CachePut)]
                   /\ UNCHANGED data
    /\ UNCHANGED <<now, env, post_id, embed_fallback, calls, hist, puts>>
    /\ UNCHANGED <<handler_vars, unit_vars>>

\* steps 4 and 5, the private API and then the retained embed fallback
Papi(p, direct, proxied) ==
    /\ pc[p] = "papi"
    /\ papi_skipped(post_id[p], env) => direct = Unasked
    /\ \/ papi_skipped(post_id[p], env)
       \/ papi_direct_panics(direct)
       \/ papi_direct_taken(direct) => proxied = Unasked
    /\ LET a == fetch_papi(post_id[p], env, direct, proxied)
       IN  /\ ret' = [ret EXCEPT ![p].papi = a.ret]
           /\ log' = [log EXCEPT ![p] = @ \o a.requests]
           /\ IF a.ret = Panic
              THEN /\ pc' = [pc EXCEPT ![p] = "panicked"]
                   /\ UNCHANGED <<data, result>>
              ELSE IF HasRecord(a.ret)
              THEN /\ data' = [data EXCEPT ![p] = a.ret.val]
                   /\ pc' = [pc EXCEPT ![p] = "set_cached"]
                   /\ UNCHANGED result
              ELSE IF IsSome(embed_fallback[p])
              THEN /\ data' = [data EXCEPT ![p] = embed_fallback[p]]
                   /\ pc' = [pc EXCEPT ![p] = "set_cached"]
                   /\ UNCHANGED result
              ELSE /\ pc' = [pc EXCEPT ![p] = "done"]
                   /\ result' = [result EXCEPT ![p] = Ok(None)]
                   /\ UNCHANGED data
    /\ UNCHANGED <<kv, now, env, post_id, embed_fallback, calls, hist, puts>>
    /\ UNCHANGED <<handler_vars, unit_vars>>

\* `let _ = set_cached(..).await; return Ok(Some(data))`
SetCached(p, store_ok) ==
    /\ pc[p] = "set_cached"
    /\ kv' = set_cached(post_id[p], Unwrap(data[p]), kv, now, store_ok)
    /\ ret' = [ret EXCEPT ![p].put = IF store_ok THEN Ok(None) ELSE Err]
    /\ hist' = [hist EXCEPT ![p].put_at = Some(now)]
    /\ puts' = [puts EXCEPT ![cache_key(post_id[p])] =
                    [tried |-> p, stored |-> IF store_ok THEN p ELSE @.stored]]
    /\ log' = [log EXCEPT ![p] = Append(@, CachePut)]
    /\ result' = [result EXCEPT ![p] = Ok(data[p])]
    /\ pc' = [pc EXCEPT ![p] = "done"]
    /\ UNCHANGED <<now, env, post_id, embed_fallback, data, calls>>
    /\ UNCHANGED <<handler_vars, unit_vars>>

\* the caller has taken the result, or the invocation has died of the panic;
\* the process may serve another call
Return(p) ==
    /\ pc[p] \in {"done", "panicked"}
    /\ pc' = [pc EXCEPT ![p] = "idle"]
    /\ post_id' = [post_id EXCEPT ![p] = <<>>]
    /\ embed_fallback' = [embed_fallback EXCEPT ![p] = None]
    /\ data' = [data EXCEPT ![p] = None]
    /\ ret' = [ret EXCEPT ![p] = NoRet]
    /\ log' = [log EXCEPT ![p] = <<>>]
    /\ result' = [result EXCEPT ![p] = NotRun]
    /\ hist' = [hist EXCEPT ![p] = NoHist]
    /\ puts' = [k \in Keys |-> [tried |-> IF puts[k].tried = p THEN 0 ELSE puts[k].tried,
                                 stored |-> IF puts[k].stored = p THEN 0 ELSE puts[k].stored]]
    /\ UNCHANGED <<kv, now, env, calls>>
    /\ UNCHANGED <<handler_vars, unit_vars>>

\* time passes
Tick ==
    /\ now < MaxTicks * TickSeconds
    /\ now' = now + TickSeconds
    /\ UNCHANGED <<kv, env, pc, post_id, embed_fallback, data, ret, log, result, calls,
                   hist, puts>>
    /\ UNCHANGED <<handler_vars, unit_vars>>

\* the steps of the processes P on the post ids I, under the upstream
\* answers E, G and A, for N calls in all
NextOf(P, I, E, G, A, N) ==
    \/ \E p \in P, id \in I, store_ok \in BOOLEAN : Call(p, id, store_ok, N)
    \/ \E p \in P, resp \in E : EmbedPage(p, resp)
    \/ \E p \in P, direct \in G, proxied \in G : Graphql(p, direct, proxied)
    \/ \E p \in P, direct \in A, proxied \in A : Papi(p, direct, proxied)
    \/ \E p \in P, store_ok \in BOOLEAN : SetCached(p, store_ok)
    \/ \E p \in P : Return(p)
    \/ Tick

\* One resolution of a post, against every upstream answer
Init == InitWith(Envs)

Next == NextOf({1}, {ValidId}, EmbedResponses, GraphqlResponses, PapiResponses, 1)

Spec == Init /\ [][Next]_vars

\* Resolutions of one post, concurrent and one after another, against a few
\* upstream answers
RaceEmbedResponses ==
    { Resp(200, Some(Page(Some(ImageNode), None, None, None, FALSE, FALSE))),
      Resp(200, Some(Page(None, None, Some("thumb.jpg"), Some("alice"), FALSE, FALSE))) }

RaceGraphqlResponses ==
    { Resp(200, Some(ApiText({}, Some(JObj([data |-> JObj([xdt_shortcode_media |-> JNull])]))))) }

RacePapiResponses == {Unasked}

InitRace == InitWith({Config(FALSE, TRUE, TRUE)})

NextRace ==
    NextOf(Procs, {ValidId}, RaceEmbedResponses, RaceGraphqlResponses, RacePapiResponses,
           MaxCalls)

SpecRace == InitRace /\ [][NextRace]_vars

----------------------------------------------------------------------------
(* Calls of one process one after another, on either post, against a few   *)
(* upstream answers                                                         *)

AgainEmbedResponses ==
    { SendErr, Resp(200, Some(Page(Some(ImageNode), None, None, None, FALSE, FALSE))) }

AgainGraphqlResponses ==
    { SendErr,
      Resp(200, Some(ApiText({}, Some(JObj([data |->
                                   JObj([xdt_shortcode_media |-> QueryVideoNode])]))))) }

AgainPapiResponses ==
    { SendErr, Resp(200, Some(ApiText({}, Some(JObj([items |-> JArr(<<PapiVideoItem>>)]))))) }

NextAgain ==
    NextOf({1}, PostIds, AgainEmbedResponses, AgainGraphqlResponses, AgainPapiResponses,
           MaxCalls)

SpecAgain == Init /\ [][NextAgain]_vars

----------------------------------------------------------------------------
(* Properties of fetch_post_data *)

Done(p) == pc[p] = "done"

\* the lookup of the resolution ran and was not a hit
Missed(p) == ret[p].cache.tag /= "NotRun" /\ ~HasRecord(ret[p].cache)

\* the strategy returned Ok(None) or an error
Ran(r) == r.tag /= "NotRun"

EmbedData(p) == Unwrap(ret[p].embed.val).data

EmbedBlocked(p) == Unwrap(ret[p].embed.val).video_blocked

\* the requests of the resolution that went to `api`
Requests(p, api) == SelectSeq(log[p], LAMBDA r : r.api = api)

\* the entry a successful set_cached of the resolution leaves in the store
EntryOf(p) ==
    Some([value |-> Serialize(Unwrap(data[p])),
          expiration |-> Unwrap(hist[p].put_at) + TTL_SECONDS])

\* C1 as stated: whenever the store holds an unexpired entry for the post at
\* the lookup, the call returns exactly that record and issues no embed,
\* query-API or private-API request and no cache write.
C1_Original ==
    \A p \in Procs :
        IsSome(hist[p].seen) =>
            /\ Done(p)
            /\ result[p] = Deserialize(Unwrap(hist[p].seen))
            /\ log[p] = <<>>
            /\ ret[p].put = NotRun

\* C1 amended: whenever the store holds an unexpired entry for the post at
\* the lookup and get_cached does not fail, the call returns exactly that
\* record, issues no request, runs no strategy and writes nothing to the
\* cache, so the entry and its expiration stay as they were.
C1_CacheHit ==
    \A p \in Procs :
        IsSome(hist[p].seen) /\ ret[p].cache.tag /= "Err" =>
            /\ Done(p)
            /\ result[p] = Deserialize(Unwrap(hist[p].seen))
            /\ HasRecord(result[p])
            /\ log[p] = <<>>
            /\ ~Ran(ret[p].embed) /\ ~Ran(ret[p].graphql) /\ ~Ran(ret[p].papi)
            /\ ~Ran(ret[p].put)
            /\ hist[p].put_at = None

\* a call that found an unexpired entry, read it and returned it
C1_Witness ==
    \E p \in Procs :
        /\ IsSome(hist[p].seen) /\ HasRecord(ret[p].cache)
        /\ Done(p) /\ result[p] = ret[p].cache

\* C2: the call never fails: whatever fails upstream or in the cache, it
\* returns a record or NotFound, never an error; and it returns NotFound only
\* when the embed page, the query API and the private API all produced no
\* record and no fallback candidate was retained.
C2_Original ==
    \A p \in Procs :
        /\ pc[p] /= "panicked"
        /\ Done(p) =>
               /\ result[p] = Ok(None) \/ HasRecord(result[p])
               /\ result[p] = Ok(None) =>
                      /\ ~HasRecord(ret[p].embed)
                      /\ ~HasRecord(ret[p].graphql)
                      /\ ~HasRecord(ret[p].papi)
                      /\ embed_fallback[p] = None

\* C3: when the embed page yields only the thumbnail-only shape, the query
\* API returns no data and no IG_COOKIE is configured, the call returns the
\* retained thumbnail record and writes that record to the cache.
C3_ThumbnailFallback ==
    \A p \in Procs :
        ( /\ Done(p) /\ Missed(p)
          /\ HasRecord(ret[p].embed) /\ is_html_fallback(EmbedData(p))
          /\ ret[p].graphql = Ok(None)
          /\ ~env.IG_COOKIE ) =>
            /\ result[p] = Ok(Some(EmbedData(p)))
            /\ ret[p].papi = Ok(None) /\ Requests(p, "papi") = <<>>
            /\ Requests(p, "cache") = <<CachePut>>
            /\ data[p] = Some(EmbedData(p))
            /\ ret[p].put = Ok(None) => kv[cache_key(post_id[p])] = EntryOf(p)

\* the thumbnail record of the bare HTML came back and is in the store
C3_Witness ==
    \E p \in Procs :
        /\ Done(p) /\ Missed(p) /\ ~env.IG_COOKIE
        /\ hist[p].path = "html" /\ is_html_fallback(EmbedData(p))
        /\ ret[p].graphql = Ok(None)
        /\ result[p] = Ok(Some(EmbedData(p)))
        /\ kv[cache_key(post_id[p])] = EntryOf(p)

\* C4 as stated: whenever a call that missed the cache returns a record, by
\* the time it returns the store holds exactly that record under the post's
\* key, with a lifetime of 86400 seconds counted from the write.
C4_Original ==
    \A p \in Procs :
        Done(p) /\ Missed(p) /\ HasRecord(result[p]) =>
            /\ IsSome(hist[p].put_at)
            /\ kv[cache_key(post_id[p])] =
                   Some([value |-> Serialize(Unwrap(result[p].val)),
                         expiration |-> Unwrap(hist[p].put_at) + TTL_SECONDS])

\* C4 amended: a call that missed the cache and returns a record has called
\* set_cached with that record; when that write succeeded, the store holds
\* exactly that record under the post's key (a lookup reads back the record
\* returned), live for 86400 seconds counted from the write and not longer.
\* When the write failed the record is returned all the same.
C4_CachedOnReturn ==
    \A p \in Procs :
        Done(p) /\ Missed(p) /\ HasRecord(result[p]) =>
            /\ Ran(ret[p].put) /\ IsSome(hist[p].put_at)
            /\ data[p] = result[p].val
            /\ ret[p].put = Ok(None) =>
                   LET key == cache_key(post_id[p])
                       at == Unwrap(hist[p].put_at)
                   IN  /\ kv[key] = Some([value |-> Serialize(Unwrap(result[p].val)),
                                          expiration |-> at + TTL_SECONDS])
                       /\ get_cached(post_id[p], kv, at, TRUE) = result[p]
                       /\ get_cached(post_id[p], kv, at + TTL_SECONDS - 1, TRUE) = result[p]
                       /\ get_cached(post_id[p], kv, at + TTL_SECONDS, TRUE) = Ok(None)

\* a cascade returned a record and its write reached the store
C4_Witness ==
    \E p \in Procs :
        /\ Done(p) /\ Missed(p) /\ HasRecord(result[p])
        /\ ret[p].put = Ok(None)
        /\ kv[cache_key(post_id[p])] = EntryOf(p)

\* C5 as stated: when the embed page is video-blocked and an extractor
\* produced a record, that record is cached and returned without the query
\* API or the private API being invoked.
C5_Original ==
    \A p \in Procs :
        HasRecord(ret[p].embed) /\ EmbedBlocked(p) =>
            /\ ~Ran(ret[p].graphql) /\ ~Ran(ret[p].papi)
            /\ data[p] = Some(EmbedData(p))
            /\ Done(p) => /\ result[p] = Ok(Some(EmbedData(p)))
                          /\ Requests(p, "cache") = <<CachePut>>

\* C5 amended: when the embed page is video-blocked and an extractor produced
\* a record, the record is retained as the fallback candidate and the query
\* API is invoked next, then the private API if the query API returned no
\* record; the embed record is cached and returned only when neither of them
\* returned a record.
C5_BlockedIsFallback ==
    \A p \in Procs :
        HasRecord(ret[p].embed) /\ EmbedBlocked(p) =>
            /\ embed_fallback[p] = Some(EmbedData(p))
            /\ pc[p] \in {"papi", "set_cached", "done"} => Ran(ret[p].graphql)
            /\ pc[p] \in {"set_cached", "done"} /\ ~HasRecord(ret[p].graphql) =>
                   Ran(ret[p].papi)
            /\ Done(p) =>
                   /\ result[p] = IF HasRecord(ret[p].graphql) THEN ret[p].graphql
                                  ELSE IF HasRecord(ret[p].papi) THEN ret[p].papi
                                  ELSE Ok(Some(EmbedData(p)))
                   /\ Requests(p, "cache") = <<CachePut>>

\* a video-blocked embed record returned after both APIs were asked in vain
C5_Witness ==
    \E p \in Procs :
        /\ Done(p) /\ HasRecord(ret[p].embed) /\ EmbedBlocked(p)
        /\ Len(Requests(p, "graphql")) > 0 /\ ~HasRecord(ret[p].graphql)
        /\ Len(Requests(p, "papi")) > 0 /\ ~HasRecord(ret[p].papi)
        /\ result[p] = Ok(Some(EmbedData(p)))

\* C6 as stated: a record of a page that is not video-blocked, produced by
\* the shortcode_media or the contextJSON extraction and holding at least one
\* media item, is cached and returned without the query API being invoked;
\* only a record of the bare-HTML extraction is retained as a fallback.
C6_Original ==
    \A p \in Procs :
        HasRecord(ret[p].embed) /\ ~EmbedBlocked(p) =>
            /\ hist[p].path \in {"json", "contextJSON"} /\ Len(EmbedData(p).media) >= 1 =>
                   /\ ~Ran(ret[p].graphql)
                   /\ embed_fallback[p] = None
                   /\ data[p] = Some(EmbedData(p))
                   /\ Done(p) => /\ result[p] = Ok(Some(EmbedData(p)))
                                 /\ Requests(p, "cache") = <<CachePut>>
            /\ IsSome(embed_fallback[p]) => hist[p].path = "html"

\* C7: with a fallback candidate retained, a record of the query API is
\* returned and cached in preference to it; failing that a record of the
\* private API; the fallback only when neither returned a record.
C7_FallbackLast ==
    \A p \in Procs :
        Done(p) /\ IsSome(embed_fallback[p]) =>
            /\ Ran(ret[p].graphql)
            /\ HasRecord(ret[p].graphql) =>
                   result[p] = ret[p].graphql /\ ~Ran(ret[p].papi)
            /\ ~HasRecord(ret[p].graphql) =>
                   /\ Ran(ret[p].papi)
                   /\ HasRecord(ret[p].papi) => result[p] = ret[p].papi
                   /\ ~HasRecord(ret[p].papi) => result[p] = Ok(embed_fallback[p])
            /\ result[p] = Ok(embed_fallback[p]) =>
                   ~HasRecord(ret[p].graphql) /\ ~HasRecord(ret[p].papi)
            /\ data[p] = result[p].val
            /\ Requests(p, "cache") = <<CachePut>>
            /\ ret[p].put = Ok(None) => kv[cache_key(post_id[p])] = EntryOf(p)

\* a record of the query API returned and stored although a fallback was held
C7_Witness ==
    \E p \in Procs :
        /\ Done(p) /\ IsSome(embed_fallback[p])
        /\ HasRecord(ret[p].graphql) /\ result[p] = ret[p].graphql
        /\ result[p] /= Ok(embed_fallback[p])
        /\ kv[cache_key(post_id[p])] = EntryOf(p)

Rank(api) ==
    CASE api = "embed" -> 1 [] api = "graphql" -> 2 [] api = "papi" -> 3 [] api = "cache" -> 4

\* C8: on a cache miss the strategies are invoked in the order embed page,
\* query API, private API, each at most once, and once a record is accepted
\* for return no later strategy is invoked.
C8_InOrder ==
    /\ [](\A p \in Procs :
            /\ \A i, j \in 1..Len(log[p]) :
                   i < j => Rank(log[p][i].api) <= Rank(log[p][j].api)
            /\ Len(Requests(p, "embed")) <= 1
            /\ Ran(ret[p].embed) => Missed(p)
            /\ Ran(ret[p].graphql) => Ran(ret[p].embed)
            /\ Ran(ret[p].papi) => Ran(ret[p].graphql) /\ ~HasRecord(ret[p].graphql)
            /\ Ran(ret[p].put) => IsSome(data[p]))
    /\ [][\A p \in Procs :
            ret'[p] /= NoRet =>
                /\ Ran(ret[p].embed) => ret'[p].embed = ret[p].embed
                /\ Ran(ret[p].graphql) => ret'[p].graphql = ret[p].graphql
                /\ Ran(ret[p].papi) => ret'[p].papi = ret[p].papi
                /\ Ran(ret[p].embed) =>
                       Requests(p, "embed")' = Requests(p, "embed")
                /\ Ran(ret[p].graphql) =>
                       Requests(p, "graphql")' = Requests(p, "graphql")
                /\ Ran(ret[p].papi) =>
                       Requests(p, "papi")' = Requests(p, "papi")
                /\ IsSome(data[p]) =>
                       /\ data'[p] = data[p]
                       /\ ret'[p].embed = ret[p].embed
                       /\ ret'[p].graphql = ret[p].graphql
                       /\ ret'[p].papi = ret[p].papi
                       /\ log'[p] \in {log[p], Append(log[p], CachePut)}]_vars

\* all three strategies were asked in turn before a record was stored
C8_Witness ==
    \E p \in Procs :
        /\ Done(p)
        /\ Len(Requests(p, "embed")) = 1
        /\ Len(Requests(p, "graphql")) > 0
        /\ Len(Requests(p, "papi")) > 0
        /\ HasRecord(ret[p].papi)
        /\ log[p][Len(log[p])] = CachePut

\* two resolutions of one post that both missed the cache and both got as far
\* as their cache write
Raced(p, q) ==
    /\ p /= q /\ Done(p) /\ Done(q)
    /\ post_id[p] = post_id[q]
    /\ Missed(p) /\ Missed(q)
    /\ Ran(ret[p].put) /\ Ran(ret[q].put)

\* the records the strategies of the resolution's own cascade returned
OwnRecords(p) ==
    {r.val : r \in {x \in {ret[p].graphql, ret[p].papi} : HasRecord(x)}}
    \cup (IF HasRecord(ret[p].embed) THEN {Some(EmbedData(p))} ELSE {})

\* C9 as stated: when two concurrent resolutions of one post both miss the
\* cache, each caller receives the record of its own cascade, and after both
\* finish the cache entry of the post is the record of whichever write
\* executed last, never a mixture and never absent.
C9_Original ==
    \A p, q \in Procs :
        Raced(p, q) =>
            LET k == cache_key(post_id[p])
            IN  /\ result[p].val \in OwnRecords(p)
                /\ result[q].val \in OwnRecords(q)
                /\ kv[k] /= None
                /\ puts[k].tried \in {p, q} => kv[k] = EntryOf(puts[k].tried)

\* C9 amended: when two concurrent resolutions of one post both miss the
\* cache, each caller receives the record of its own cascade; after both
\* finish, the cache entry of the post is the whole record of whichever
\* successful write executed last, never a mixture; the write that executed
\* last wins when it succeeded, and when both writes failed the store holds
\* the record of neither.
C9_LastWriterWins ==
    \A p, q \in Procs :
        Raced(p, q) =>
            LET k == cache_key(post_id[p])
                s == puts[k].stored
                t == puts[k].tried
            IN  /\ result[p].val \in OwnRecords(p)
                /\ result[q].val \in OwnRecords(q)
                /\ result[p] = Ok(data[p]) /\ result[q] = Ok(data[q])
                /\ s \in {p, q} => ret[s].put = Ok(None) /\ kv[k] = EntryOf(s)
                /\ t \in {p, q} /\ ret[t].put = Ok(None) => s = t
                /\ ret[p].put = Err /\ ret[q].put = Err => s \notin {p, q}
                /\ ret[p].put = Ok(None) \/ ret[q].put = Ok(None) => kv[k] /= None

\* two cascades produced different records, both writes succeeded and the
\* store holds the record written last
C9_Witness ==
    \E p, q \in Procs :
        /\ Raced(p, q)
        /\ ret[p].put = Ok(None) /\ ret[q].put = Ok(None)
        /\ data[p] /= data[q]
        /\ puts[cache_key(post_id[p])].tried = q
        /\ kv[cache_key(post_id[p])] = EntryOf(q)
        /\ kv[cache_key(post_id[p])] /= EntryOf(p)

PcRank(at) ==
    CASE at = "idle" -> 0 [] at = "embed" -> 1 [] at = "graphql" -> 2
      [] at = "papi" -> 3 [] at = "set_cached" -> 4 [] at \in {"done", "panicked"} -> 5

\* the next step of a call under way, whatever the upstream answers
Advance(p) ==
    \/ \E resp \in EmbedResponses : EmbedPage(p, resp)
    \/ \E direct \in GraphqlResponses, proxied \in GraphqlResponses :
           Graphql(p, direct, proxied)
    \/ \E direct \in PapiResponses, proxied \in PapiResponses : Papi(p, direct, proxied)
    \/ \E store_ok \in BOOLEAN : SetCached(p, store_ok)

\* C10: a call never retries a strategy and always terminates: it issues at
\* most one embed-page fetch, at most two query-API fetches (direct, then
\* proxy_fetch) and at most two private-API fetches (direct, then
\* proxy_fetch); every step moves it forward, a step is always possible until
\* it is done, and it ends by returning a record or NotFound.
C10_Original ==
    /\ [](\A p \in Procs :
            /\ Requests(p, "embed") \in {<<>>, <<proxy_fetch("embed", env)>>}
            /\ Requests(p, "graphql") \in
                   {<<>>, <<direct_fetch("graphql")>>,
                    <<direct_fetch("graphql"), proxy_fetch("graphql", env)>>}
            /\ Requests(p, "papi") \in
                   {<<>>, <<direct_fetch("papi")>>,
                    <<direct_fetch("papi"), proxy_fetch("papi", env)>>}
            /\ Len(Requests(p, "cache")) <= 1
            /\ pc[p] \in {"embed", "graphql", "papi", "set_cached"} => ENABLED Advance(p)
            /\ pc[p] /= "panicked"
            /\ Done(p) => result[p] = Ok(None) \/ HasRecord(result[p]))
    /\ [][\A p \in Procs :
            pc'[p] /= pc[p] =>
                \/ PcRank(pc'[p]) > PcRank(pc[p])
                \/ pc[p] \in {"done", "panicked"} /\ pc'[p] = "idle"]_vars

----------------------------------------------------------------------------
(* utils/instagram.rs: extract_post_id and mediaid_to_code.                *)
(* A URL is [host, path]; a path is the sequence of its '/'-separated      *)
(* pieces after the leading '/', empty pieces included: "/p/BA/" is        *)
(* <<"p", "BA", "">>.  Pieces are sequences of code points.                *)

MAX_REDIRECTS == 5

s_p == <<112>>
s_reel == <<114, 101, 101, 108>>
s_tv == <<116, 118>>
s_reels == <<114, 101, 101, 108, 115>>
s_share == <<115, 104, 97, 114, 101>>
s_slash == <<47>>

Front(s) == SubSeq(s, 1, Len(s) - 1)

Least(S) == CHOOSE i \in S : \A j \in S : i <= j

\* path.split('/').filter(|s| !s.is_empty()).collect()
Segments(path) == SelectSeq(path, LAMBDA s : s /= <<>>)

\* extract_post_id returning at the last marker segment instead of the first
extract_post_id_LastMarker(path) ==
    LET segments == Segments(path)
        hits == {i \in 1..Len(segments) : segments[i] \in {s_p, s_reel, s_tv, s_reels}}
        last == CHOOSE i \in hits : \A j \in hits : j <= i
    IN  IF hits = {}
        THEN None
        ELSE IF last + 1 <= Len(segments)
             THEN Some(segments[last + 1])
             ELSE None

\* the loop returns at the first marker segment, with whatever follows it
extract_post_id(path) ==
    LET segments == Segments(path)
        hits == {i \in 1..Len(segments) : segments[i] \in {s_p, s_reel, s_tv, s_reels}}
    IN  IF hits = {}
        THEN None
        ELSE IF Least(hits) + 1 <= Len(segments)
             THEN Some(segments[Least(hits) + 1])
             ELSE None

\* the `while id > 0` loop on the base-64 numeral of id: the characters of the
\* remainders, least significant first
RECURSIVE mediaid_chars(_)
mediaid_chars(id) ==
    IF id = <<>>
    THEN <<>>
    ELSE <<INSTAGRAM_BASE64[id[Len(id)] + 1]>> \o mediaid_chars(Front(id))

RECURSIVE Reverse(_)
Reverse(s) == IF s = <<>> THEN <<>> ELSE Append(Reverse(Tail(s)), Head(s))

\* mediaid_to_code without the final reversal
mediaid_to_code_Unreversed(media_id) ==
    IF media_id = <<>> THEN <<65>> ELSE mediaid_chars(media_id)

mediaid_to_code(media_id) ==
    IF media_id = <<>> THEN <<65>> ELSE Reverse(mediaid_chars(media_id))

----------------------------------------------------------------------------
(* handlers/embed.rs *)

IsDigit(c) == c \in 48..57

RECURSIVE Decimal(_)
Decimal(raw) == IF raw = <<>> THEN 0 ELSE Decimal(Front(raw)) * 10 + (raw[Len(raw)] - 48)

RECURSIVE Numeral(_)
Numeral(n) == IF n = 0 THEN <<>> ELSE Append(Numeral(n \div 64), n % 64)

\* raw.parse::<u64>() on a string of digits; the ids of the model have at most
\* nine digits, so the value never overflows
parse_u64(raw) == IF raw = <<>> THEN None ELSE Some(Numeral(Decimal(raw)))

resolve_post_id(raw) ==
    IF (\A i \in 1..Len(raw) : IsDigit(raw[i])) /\ IsSome(parse_u64(raw))
    THEN mediaid_to_code(Unwrap(parse_u64(raw)))
    ELSE raw

starts_with(s, prefix) ==
    Len(s) >= Len(prefix) /\ SubSeq(s, 1, Len(prefix)) = prefix

\* s.trim_start_matches(pat): every leading repetition of pat is removed
RECURSIVE trim_start_matches(_, _)
trim_start_matches(s, pat) ==
    IF starts_with(s, pat)
    THEN trim_start_matches(SubSeq(s, Len(pat) + 1, Len(s)), pat)
    ELSE s

Url(host, path) == [host |-> host, path |-> path]

Instagram == "www.instagram.com"

\* what the handler answers
Redirect(url) == [kind |-> "redirect", url |-> url]
Html(index) == [kind |-> "html", index |-> index]

\* Url::parse of "https://www.instagram.com/p/{post_id}/" succeeds for every
\* id of the model (none holds '/', '?' or '#')
redirect_to_instagram(id) == Ok(Redirect(Url(Instagram, <<s_p, id, <<>>>>)))

\* the share path rebuilt from the route parameters, as path pieces
share_path_of(id, extra) ==
    IF extra = <<>>
    THEN <<s_share, trim_start_matches(trim_start_matches(id, s_share \o s_slash), s_share)>>
    ELSE <<s_share, extra>>

\* A Location header value
Absolute(host, path) == [kind |-> "absolute", host |-> host, path |-> path]
PathAbsolute(path) == [kind |-> "path-absolute", host |-> "", path |-> path]
Relative(path) == [kind |-> "relative", host |-> "", path |-> path]
Malformed == [kind |-> "malformed", host |-> "", path |-> <<>>]

\* Url::parse(&location): only an absolute URL parses without a base
parse_url(location) ==
    IF location.kind = "absolute" THEN Some(Url(location.host, location.path)) ELSE None

\* base.join(&location): a path-absolute reference replaces the path, a
\* relative one replaces the last piece of the base path
join(base, location) ==
    CASE location.kind = "absolute" -> Some(Url(location.host, location.path))
      [] location.kind = "path-absolute" -> Some(Url(base.host, location.path))
      [] location.kind = "relative" -> Some(Url(base.host, Front(base.path) \o location.path))
      [] OTHER -> None

\* Url::parse(&location).or_else(|_| Url::parse(&current_url).and_then(|b| b.join(&location)))
resolve_location(url, location) ==
    IF IsSome(parse_url(location)) THEN parse_url(location) ELSE join(url, location)

\* an upstream answer to a request of resolve_share_url
Answer(status, location) == [send |-> "ok", status |-> status, location |-> location]
NoAnswer == [send |-> "err", status |-> 0, location |-> None]

\* iteration, were a Location that holds a post id followed like any other
iteration_FollowsPost(url, answer) ==
    IF answer.send = "err"
    THEN [then |-> "return", val |-> Err, url |-> url]
    ELSE IF answer.status \in 300..399
    THEN LET next == IF IsSome(answer.location)
                     THEN resolve_location(url, Unwrap(answer.location))
                     ELSE None
         IN  IF ~IsSome(next)
             THEN [then |-> "break", val |-> Ok(None), url |-> url]
             ELSE [then |-> "continue", val |-> Ok(None), url |-> Unwrap(next)]
    ELSE [then |-> "return", val |-> Ok(extract_post_id(url.path)), url |-> url]

\* iteration, were a response that is no redirect asked for once more
iteration_AsksAgain(url, answer) ==
    IF answer.send = "err"
    THEN [then |-> "return", val |-> Err, url |-> url]
    ELSE IF answer.status \in 300..399
    THEN LET next == IF IsSome(answer.location)
                     THEN resolve_location(url, Unwrap(answer.location))
                     ELSE None
         IN  IF ~IsSome(next)
             THEN [then |-> "break", val |-> Ok(None), url |-> url]
             ELSE IF IsSome(extract_post_id(Unwrap(next).path))
             THEN [then |-> "return", val |-> Ok(extract_post_id(Unwrap(next).path)),
                   url |-> url]
             ELSE [then |-> "continue", val |-> Ok(None), url |-> Unwrap(next)]
    ELSE [then |-> "continue", val |-> Ok(None), url |-> url]

\* one iteration of the loop of resolve_share_url, on the answer to the
\* request for `url`: return a value, continue from a URL, or break
iteration(url, answer) ==
    IF answer.send = "err"
    THEN [then |-> "return", val |-> Err, url |-> url]
    ELSE IF answer.status \in 300..399
    THEN LET next == IF IsSome(answer.location)
                     THEN resolve_location(url, Unwrap(answer.location))
                     ELSE None
         IN  IF ~IsSome(next)
             THEN [then |-> "break", val |-> Ok(None), url |-> url]
             ELSE IF IsSome(extract_post_id(Unwrap(next).path))
             THEN [then |-> "return", val |-> Ok(extract_post_id(Unwrap(next).path)),
                   url |-> url]
             ELSE [then |-> "continue", val |-> Ok(None), url |-> Unwrap(next)]
    ELSE [then |-> "return", val |-> Ok(extract_post_id(url.path)), url |-> url]

\* parse_img_index: the 1-based img_index query parameter, None below 1
parse_img_index(q) == IF IsSome(q) /\ Unwrap(q) >= 1 THEN q ELSE None

\* steps 5 and 6 of `handle` up to the call of fetch_post_data: a non-bot is
\* redirected to the post, for a bot the post is fetched
BotDetection(l) ==
    /\ locals' = Some(l)
    /\ IF l.bot
       THEN /\ hpc' = "fetching"
            /\ fetches' = fetches + 1
            /\ UNCHANGED response
       ELSE /\ hpc' = "answered"
            /\ response' = redirect_to_instagram(l.post_id)
            /\ UNCHANGED fetches

\* a request reaches the embed handler: steps 1 to 4, up to the first request
\* of resolve_share_url
Handle(r) ==
    /\ hpc = "idle"
    /\ LET l == [post_id |-> resolve_post_id(r.postID),
                 share_path |-> None,
                 bot |-> r.bot,
                 direct |-> r.direct,
                 img_index |-> parse_img_index(r.img_index)]
       IN  IF r.postID = <<>>
           THEN /\ hpc' = "answered"
                /\ response' = redirect_to_instagram(<<>>)
                /\ locals' = Some([l EXCEPT !.post_id = <<>>])
                /\ UNCHANGED <<current_url, fetches>>
           ELSE IF starts_with(l.post_id, s_share)
           THEN /\ hpc' = "resolving"
                /\ locals' = Some([l EXCEPT !.share_path =
                                       Some(share_path_of(l.post_id, r.extra))])
                /\ current_url' = Some(Url(Instagram, share_path_of(l.post_id, r.extra)))
                /\ UNCHANGED <<fetches, response>>
           ELSE /\ BotDetection(l)
                /\ UNCHANGED current_url
    /\ UNCHANGED <<hops, sent, got, resolved>>
    /\ UNCHANGED <<scraper_vars, unit_vars>>

\* Hop, were the loop to run for as long as redirects arrive
Hop_NoLimit(answer) ==
    /\ hpc = "resolving"
    /\ LET it == iteration(Unwrap(current_url), answer)
           over == it.then /= "continue"
           value == IF it.then = "return" THEN it.val ELSE Ok(None)
           l == Unwrap(locals)
       IN  /\ hops' = hops + 1
           /\ sent' = Append(sent, Unwrap(current_url))
           /\ got' = Append(got, answer)
           /\ current_url' = Some(it.url)
           /\ IF ~over
              THEN UNCHANGED <<hpc, locals, resolved, fetches, response>>
              ELSE /\ resolved' = value
                   /\ IF HasRecord(value)
                      THEN BotDetection([l EXCEPT !.post_id = Unwrap(value.val)])
                      ELSE /\ hpc' = "answered"
                           /\ response' = redirect_to_instagram(l.post_id)
                           /\ UNCHANGED <<locals, fetches>>
    /\ UNCHANGED <<scraper_vars, unit_vars>>

\* Hop, were `handle` to pass an error of resolve_share_url on with `?`
Hop_Raises(answer) ==
    /\ hpc = "resolving"
    /\ LET it == iteration(Unwrap(current_url), answer)
           over == it.then /= "continue" \/ hops + 1 >= MAX_REDIRECTS
           value == IF it.then = "return" THEN it.val ELSE Ok(None)
           l == Unwrap(locals)
       IN  /\ hops' = hops + 1
           /\ sent' = Append(sent, Unwrap(current_url))
           /\ got' = Append(got, answer)
           /\ current_url' = Some(it.url)
           /\ IF ~over
              THEN UNCHANGED <<hpc, locals, resolved, fetches, response>>
              ELSE /\ resolved' = value
                   /\ IF HasRecord(value)
                      THEN BotDetection([l EXCEPT !.post_id = Unwrap(value.val)])
                      ELSE /\ hpc' = "answered"
                           /\ response' = IF value.tag = "Err"
                                          THEN Err
                                          ELSE redirect_to_instagram(l.post_id)
                           /\ UNCHANGED <<locals, fetches>>
    /\ UNCHANGED <<scraper_vars, unit_vars>>

\* resolve_share_url requests current_url and reads the answer; when that ends
\* the loop, `handle` goes on to the bot detection or redirects
Hop(answer) ==
    /\ hpc = "resolving"
    /\ LET it == iteration(Unwrap(current_url), answer)
           over == it.then /= "continue" \/ hops + 1 >= MAX_REDIRECTS
           value == IF it.then = "return" THEN it.val ELSE Ok(None)
           l == Unwrap(locals)
       IN  /\ hops' = hops + 1
           /\ sent' = Append(sent, Unwrap(current_url))
           /\ got' = Append(got, answer)
           /\ current_url' = Some(it.url)
           /\ IF ~over
              THEN UNCHANGED <<hpc, locals, resolved, fetches, response>>
              ELSE /\ resolved' = value
                   /\ IF HasRecord(value)
                      THEN BotDetection([l EXCEPT !.post_id = Unwrap(value.val)])
                      ELSE /\ hpc' = "answered"
                           /\ response' = redirect_to_instagram(l.post_id)
                           /\ UNCHANGED <<locals, fetches>>
    /\ UNCHANGED <<scraper_vars, unit_vars>>

\* what fetch_post_data hands to the handler: the media items (each with the
\* result of Url::parse on its url) and whether byte 1000 of the rendered
\* page lies inside a multi-byte character
Fetched(media, cut) == Ok(Some([media |-> media, cut |-> cut]))

\* steps 6 to 8 of `handle`
answer_of(l, outcome) ==
    IF outcome.tag = "Panic"
    THEN Panic
    ELSE IF ~HasRecord(outcome)
    THEN redirect_to_instagram(l.post_id)
    ELSE LET d == Unwrap(outcome.val)
             wanted == IF IsSome(l.img_index) THEN Unwrap(l.img_index) - 1 ELSE 0
             last == IF Len(d.media) = 0 THEN 0 ELSE Len(d.media) - 1
             media_index == IF wanted < last THEN wanted ELSE last
         IN  IF l.direct
             THEN IF media_index < Len(d.media)
                  THEN IF IsSome(d.media[media_index + 1])
                       THEN Ok(Redirect(Unwrap(d.media[media_index + 1])))
                       ELSE Err
                  ELSE redirect_to_instagram(l.post_id)
             ELSE IF d.cut THEN Panic ELSE Ok(Html(l.img_index))

\* fetch_post_data returns to the handler
FetchPostData(outcome) ==
    /\ hpc = "fetching"
    /\ hpc' = "answered"
    /\ response' = answer_of(Unwrap(locals), outcome)
    /\ UNCHANGED <<locals, current_url, hops, sent, got, resolved, fetches>>
    /\ UNCHANGED <<scraper_vars, unit_vars>>

\* Inputs of the handler
s_BA == <<66, 65>>
s_XY == <<88, 89>>

HandlerRequests ==
    [postID : {<<>>, s_share, s_share \o s_XY, s_BA, <<54, 53>>},
     extra : {<<>>, s_XY},
     bot : BOOLEAN,
     direct : BOOLEAN,
     img_index : {None, Some(0), Some(2)}]

Locations ==
    { Absolute(Instagram, <<s_share, s_BA>>),
      Absolute(Instagram, <<s_reel, s_BA, <<>>>>),
      Absolute("l.instagram.com", <<s_p, <<>>>>),
      Absolute(Instagram, <<s_tv>>),
      PathAbsolute(<<<<97>>, s_XY>>),
      Relative(<<s_p, s_XY>>),
      Relative(<<s_BA>>),
      Malformed }

Answers ==
    {NoAnswer, Answer(200, None), Answer(302, None)}
        \cup {Answer(302, Some(location)) : location \in Locations}

FetchOutcomes ==
    { Fetched(<<Some(Url("cdn", <<s_BA>>)), None>>, FALSE),
      Fetched(<<>>, TRUE),
      Ok(None), Err, Panic }

InitHandle == InitWith({Config(FALSE, FALSE, FALSE)})

NextHandle ==
    \/ \E r \in HandlerRequests : Handle(r)
    \/ \E answer \in Answers : Hop(answer)
    \/ \E outcome \in FetchOutcomes : FetchPostData(outcome)

SpecHandle == InitHandle /\ [][NextHandle]_vars

----------------------------------------------------------------------------
(* Properties of resolve_share_url and of the share branch of `handle` *)

\* the answer to request i was a 3xx with a Location
Redirected(i) == got[i].send = "ok" /\ got[i].status \in 300..399 /\ IsSome(got[i].location)

\* the Location of answer i, resolved against the URL of request i
Target(i) == resolve_location(sent[i], Unwrap(got[i].location))

\* answer i redirected to a URL whose path holds a post id
PostLocation(i) ==
    /\ Redirected(i)
    /\ IsSome(Target(i))
    /\ IsSome(extract_post_id(Unwrap(Target(i)).path))

\* C11: resolve_share_url returns the post id of the first redirect Location
\* that, resolved against the URL just requested, has a path with a p, reel,
\* tv or reels segment followed by an id segment, and issues no request after
\* that answer.
C11_FirstPostLocation ==
    \A i \in 1..Len(got) :
        (PostLocation(i) /\ \A j \in 1..(i - 1) : ~PostLocation(j))
            => /\ resolved = Ok(extract_post_id(Unwrap(Target(i)).path))
               /\ Len(sent) = i
               /\ hpc /= "resolving"

\* three redirects to URLs without a post id, then a fourth whose Location,
\* a relative one, holds the id
C11_Witness ==
    /\ Len(got) = 4
    /\ \A j \in 1..3 : Redirected(j) /\ ~PostLocation(j)
    /\ PostLocation(4)
    /\ got[4].location = Some(Relative(<<s_BA>>))
    /\ resolved = Ok(Some(s_BA))

\* C12: resolve_share_url issues at most MAX_REDIRECTS (5) requests whatever
\* the upstream answers, a redirect cycle included: once the fifth answer is
\* in it has returned, and when none of five redirects led to a URL with a
\* post id it has returned None.
C12_HopLimit ==
    /\ Len(sent) <= MAX_REDIRECTS
    /\ hops = Len(sent)
    /\ Len(sent) = MAX_REDIRECTS => hpc /= "resolving" /\ resolved.tag /= "NotRun"
    /\ (Len(got) = MAX_REDIRECTS
            /\ \A i \in 1..MAX_REDIRECTS : Redirected(i) /\ IsSome(Target(i))
                                             /\ ~PostLocation(i))
        => resolved = Ok(None)

\* five requests, the last four for one URL that redirects to itself
C12_Witness ==
    /\ Len(sent) = MAX_REDIRECTS
    /\ \A i \in 1..MAX_REDIRECTS : Redirected(i) /\ ~PostLocation(i)
    /\ \A i \in 2..MAX_REDIRECTS : sent[i] = Url(Instagram, <<s_share, s_BA>>)
    /\ resolved = Ok(None)

\* answer i was a response with a status outside 300..399
NotRedirect(i) == got[i].send = "ok" /\ got[i].status \notin 300..399

\* C13: when a response that is not a 3xx arrives, resolve_share_url returns
\* the post id of the path of the URL just requested, or None when that path
\* holds none, and issues no further request.
C13_NotRedirectEnds ==
    \A i \in 1..Len(got) :
        NotRedirect(i)
            => /\ resolved = Ok(extract_post_id(sent[i].path))
               /\ Len(sent) = i
               /\ hpc /= "resolving"

\* a redirect to a URL without a post id, which then answers 200
C13_Witness ==
    /\ Len(got) = 2
    /\ Redirected(1)
    /\ NotRedirect(2)
    /\ sent[2] = Url(Instagram, <<<<97>>, s_XY>>)
    /\ resolved = Ok(None)

\* resolve_share_url has returned, without a post id
Unresolved == resolved.tag /= "NotRun" /\ ~HasRecord(resolved)

\* C14: whenever the share resolution yields no post id (a 3xx without
\* Location, a Location that does not parse, a transport error, the hop limit,
\* a final URL without a post id), the embed handler answers with a redirect
\* to the Instagram post page /p/{post_id}/ of the id it was asked for, never
\* with an error, and never calls fetch_post_data.
C14_UnresolvedRedirects ==
    Unresolved
        => /\ hpc = "answered"
           /\ response =
                  Ok(Redirect(Url(Instagram, <<s_p, Unwrap(locals).post_id, <<>>>>)))
           /\ starts_with(Unwrap(locals).post_id, s_share)
           /\ fetches = 0

\* a crawler asks for a share link; the second request of the resolution
\* fails in transport
C14_Witness ==
    /\ Unresolved
    /\ Unwrap(locals).bot
    /\ Len(got) = 2
    /\ got[2] = NoAnswer
    /\ resolved = Err
    /\ response.tag = "Ok"

----------------------------------------------------------------------------
(* Properties of fetch_papi *)

\* C15: with no IG_COOKIE configured, fetch_papi returns Ok(None) without
\* issuing any request, direct or relayed, and fetch_post_data goes on to
\* the retained embed fallback, or to NotFound when it retained none.
C15_NoCookieNoRequest ==
    \A p \in Procs :
        (Ran(ret[p].papi) /\ ~env.IG_COOKIE) =>
            /\ ret[p].papi = Ok(None)
            /\ Requests(p, "papi") = <<>>
            /\ IF IsSome(embed_fallback[p])
               THEN /\ data[p] = embed_fallback[p]
                    /\ pc[p] \in {"set_cached", "done"}
                    /\ Done(p) => result[p] = Ok(embed_fallback[p])
               ELSE /\ Done(p)
                    /\ result[p] = Ok(None)
                    /\ Requests(p, "cache") = <<>>

\* without the cookie and without a fallback the call ended in NotFound,
\* after the embed page and the query API were asked
C15_Witness ==
    \E p \in Procs :
        /\ Done(p) /\ ~env.IG_COOKIE
        /\ Ran(ret[p].papi)
        /\ Requests(p, "graphql") /= <<>>
        /\ embed_fallback[p] = None
        /\ result[p] = Ok(None)

----------------------------------------------------------------------------
(* scraper/proxy.rs: the request proxy_fetch sends.  The secrets are ASCII  *)
(* text, so that neither log slice (lines 96, 100) can split a character.  *)

RelayEndpoint == "https://api.brightdata.com/request"

forward_keys ==
    {"User-Agent", "Accept", "Accept-Language", "Cookie", "Content-Type", "Origin",
     "Referer", "X-Ig-App-Id", "X-Fb-Lsd", "X-Asbd-Id", "X-Fb-Friendly-Name",
     "X-Requested-With", "Sec-Fetch-Dest", "Sec-Fetch-Mode", "Sec-Fetch-Site",
     "Sec-Ch-Ua", "Sec-Ch-Ua-Mobile", "Sec-Ch-Ua-Platform"}

\* a user name is the sequence of its '-'-separated parts; "-zone-" is found
\* at the first part "zone" that has a part before and after it
extract_zone(username) ==
    LET hits == {i \in 2..(Len(username) - 1) : username[i] = "zone"}
    IN  IF hits = {} \/ username[Least(hits) + 1] = ""
        THEN None
        ELSE Some(username[Least(hits) + 1])

HttpRequest(url, method, headers, body) ==
    [url |-> url, method |-> method, headers |-> headers, body |-> body]

\* the JSON payload handed to the relay, by its keys
residential_proxy_fetch(target_url, method, original_headers, body, username, password) ==
    LET zone == IF IsSome(extract_zone(username))
                THEN Unwrap(extract_zone(username))
                ELSE "residential"
        method_str == IF method \in {"GET", "POST"} THEN method ELSE "GET"
        kept == DOMAIN original_headers \cap forward_keys
        proxy_headers == [k \in kept |-> original_headers[k]]
        payload == [zone |-> zone, url |-> target_url, format |-> "raw",
                    method |-> method_str, country |-> "us",
                    headers |-> IF kept = {} THEN None ELSE Some(proxy_headers),
                    body |-> body]
    IN  HttpRequest(RelayEndpoint, "POST",
                    [k \in {"Authorization", "Content-Type"} |->
                        IF k = "Authorization"
                        THEN <<"Bearer", password>>
                        ELSE "application/json"],
                    Some(payload))

direct_request(target_url, method, headers, body) ==
    HttpRequest(target_url, method, headers, body)

\* proxy_request, were the user name alone to select the relay
proxy_request_UserOnly(target_url, method, headers, body, username, password) ==
    IF IsSome(username)
    THEN residential_proxy_fetch(target_url, method, headers, body, Unwrap(username),
                                 IF IsSome(password) THEN Unwrap(password) ELSE "")
    ELSE direct_request(target_url, method, headers, body)

\* the request proxy_fetch sends; username and password are the secrets
\* PROXY_USERNAME and PROXY_PASSWORD, None when not configured
proxy_request(target_url, method, headers, body, username, password) ==
    IF proxy_route(Config(FALSE, IsSome(username), IsSome(password))) = "relay"
    THEN residential_proxy_fetch(target_url, method, headers, body, Unwrap(username),
                                 Unwrap(password))
    ELSE direct_request(target_url, method, headers, body)

ProxyArgs ==
    [target_url : {"https://www.instagram.com/graphql/query",
                   "https://i.instagram.com/api/v1/media/65/info/"},
     method : {"GET", "POST"},
     headers : {<<>>,
                [k \in {"Cookie", "X-Ig-App-Id"} |-> "v"],
                [k \in {"User-Agent", "X-Ig-Www-Claim"} |-> "w"]},
     body : {None, Some("doc_id=1")},
     username : {None, Some(<<"brd", "customer", "1", "zone", "res", "x">>),
                 Some(<<"user">>), Some(<<"zone", "a">>)},
     password : {None, Some("pw")}]

\* proxy_fetch runs on its arguments
ProxyFetch ==
    /\ out = NotRun
    /\ Unwrap(arg).fn = "proxy_fetch"
    /\ out' = Ok(LET a == Unwrap(arg).x
                 IN  proxy_request(a.target_url, a.method, a.headers, a.body,
                                   a.username, a.password))
    /\ UNCHANGED <<arg, scraper_vars, handler_vars>>

----------------------------------------------------------------------------
(* scraper/embed_page.rs: the scanners of the page text.  A text is the    *)
(* sequence of its characters; "k" stands for the name of a key and "a"    *)
(* for any character the scanners give no meaning to.                      *)

MaxTail == 6       \* characters after the needle, in the enumerated texts

DQ == "\""
BS == "\\"

\* html.find(needle): the 1-based index of the first occurrence
find(html, needle) ==
    LET hits == {i \in 1..(Len(html) - Len(needle) + 1) :
                    SubSeq(html, i, i + Len(needle) - 1) = needle}
    IN  IF hits = {} THEN None ELSE Some(Least(hits))

\* rest.find(ch), from index `from` on
find_char(html, from, ch) ==
    LET hits == {i \in from..Len(html) : html[i] = ch}
    IN  IF hits = {} THEN None ELSE Some(Least(hits))

\* "shortcode_media":
ShortcodeNeedle == <<DQ, "k", DQ, ":">>

\* the loop of extract_shortcode_media_json over html[obj_start..], at
\* character i with the locals depth, in_string and escape_next; depth is a
\* u32 that is at least 1 wherever it is decremented
RECURSIVE brace_scan(_, _, _, _, _, _)
brace_scan(html, obj_start, i, depth, in_string, escape_next) ==
    IF i > Len(html)
    THEN None
    ELSE IF escape_next
    THEN brace_scan(html, obj_start, i + 1, depth, in_string, FALSE)
    ELSE IF html[i] = BS /\ in_string
    THEN brace_scan(html, obj_start, i + 1, depth, in_string, TRUE)
    ELSE IF html[i] = DQ
    THEN brace_scan(html, obj_start, i + 1, depth, ~in_string, FALSE)
    ELSE IF in_string
    THEN brace_scan(html, obj_start, i + 1, depth, in_string, FALSE)
    ELSE IF html[i] = "{"
    THEN brace_scan(html, obj_start, i + 1, depth + 1, in_string, FALSE)
    ELSE IF html[i] = "}"
    THEN IF depth - 1 = 0
         THEN Some(SubSeq(html, obj_start, i))
         ELSE brace_scan(html, obj_start, i + 1, depth - 1, in_string, FALSE)
    ELSE brace_scan(html, obj_start, i + 1, depth, in_string, FALSE)

\* brace_scan, were a backslash in a string literal an ordinary character
RECURSIVE brace_scan_NoEscape(_, _, _, _, _, _)
brace_scan_NoEscape(html, obj_start, i, depth, in_string, escape_next) ==
    IF i > Len(html)
    THEN None
    ELSE IF html[i] = DQ
    THEN brace_scan_NoEscape(html, obj_start, i + 1, depth, ~in_string, FALSE)
    ELSE IF in_string
    THEN brace_scan_NoEscape(html, obj_start, i + 1, depth, in_string, FALSE)
    ELSE IF html[i] = "{"
    THEN brace_scan_NoEscape(html, obj_start, i + 1, depth + 1, in_string, FALSE)
    ELSE IF html[i] = "}"
    THEN IF depth - 1 = 0
         THEN Some(SubSeq(html, obj_start, i))
         ELSE brace_scan_NoEscape(html, obj_start, i + 1, depth - 1, in_string, FALSE)
    ELSE brace_scan_NoEscape(html, obj_start, i + 1, depth, in_string, FALSE)

extract_shortcode_media_json_NoEscape(html) ==
    LET start == find(html, ShortcodeNeedle)
        json_start == Unwrap(start) + Len(ShortcodeNeedle)
        obj_start == find_char(html, json_start, "{")
    IN  IF ~IsSome(start) THEN None
        ELSE IF ~IsSome(obj_start) THEN None
        ELSE brace_scan_NoEscape(html, Unwrap(obj_start), Unwrap(obj_start), 0, FALSE, FALSE)

extract_shortcode_media_json(html) ==
    LET start == find(html, ShortcodeNeedle)
        json_start == Unwrap(start) + Len(ShortcodeNeedle)
        obj_start == find_char(html, json_start, "{")
    IN  IF ~IsSome(start) THEN None
        ELSE IF ~IsSome(obj_start) THEN None
        ELSE brace_scan(html, Unwrap(obj_start), Unwrap(obj_start), 0, FALSE, FALSE)

\* every text of up to n of the characters `chars`
Texts(chars, n) == UNION {[1..len -> chars] : len \in 0..n}

\* {"owner":{"username":"a}b"},"is_video":false}
OwnerExample ==
    <<"{", DQ, "k", DQ, ":", "{", DQ, "k", DQ, ":", DQ, "a", "}", "a", DQ, "}", ",",
      DQ, "k", DQ, ":", "a", "}">>

ShortcodeHtmls ==
    {ShortcodeNeedle \o tail : tail \in Texts({"{", "}", DQ, BS}, MaxTail)}
        \cup { <<"{", "a">> \o ShortcodeNeedle \o OwnerExample \o <<"}", "a">>,
               ShortcodeNeedle \o <<"a", "{", DQ, BS, DQ, "}", BS, BS, DQ, "{", "}", "}", "}">>,
               <<"{", "}", DQ, "k", DQ, "a">> }

\* extract_shortcode_media_json runs on a page text
ExtractShortcodeMediaJson ==
    /\ out = NotRun
    /\ Unwrap(arg).fn = "extract_shortcode_media_json"
    /\ out' = Ok(extract_shortcode_media_json(Unwrap(arg).x))
    /\ UNCHANGED <<arg, scraper_vars, handler_vars>>


\* "contextJSON":"
ContextNeedle == <<DQ, "c", DQ, ":", DQ>>

\* the `while i < bytes.len()` loop of extract_from_context_json: the index
\* it stops at, Len(bytes) + 1 when it runs off the end.  The characters of
\* the enumerated texts are one byte each.
RECURSIVE closing_quote(_, _, _)
closing_quote(bytes, i, escape) ==
    IF i > Len(bytes)
    THEN i
    ELSE IF escape
    THEN closing_quote(bytes, i + 1, FALSE)
    ELSE IF bytes[i] = BS
    THEN closing_quote(bytes, i + 1, TRUE)
    ELSE IF bytes[i] = DQ
    THEN i
    ELSE closing_quote(bytes, i + 1, FALSE)

\* serde_json::from_str::<String> on the characters between the quotes of
\* a literal: \" and \\ and \n are escapes ("NL" is the line feed), a
\* backslash before any other character of the texts is an error
RECURSIVE unescape_json(_)
unescape_json(chars) ==
    IF chars = <<>>
    THEN Some(<<>>)
    ELSE IF chars[1] /= BS
    THEN LET rest == unescape_json(Tail(chars))
         IN  IF IsSome(rest) THEN Some(<<chars[1]>> \o Unwrap(rest)) ELSE None
    ELSE IF Len(chars) < 2 \/ chars[2] \notin {DQ, BS, "n"}
    THEN None
    ELSE LET rest == unescape_json(SubSeq(chars, 3, Len(chars)))
             ch == IF chars[2] = "n" THEN "NL" ELSE chars[2]
         IN  IF IsSome(rest) THEN Some(<<ch>> \o Unwrap(rest)) ELSE None

\* context_json_string, were the first quote after the opening one to end
\* the literal
context_json_string_FirstQuote(html) ==
    LET start == find(html, ContextNeedle)
        str_start == Unwrap(start) + Len(ContextNeedle) - 1
        i == find_char(html, str_start + 1, DQ)
    IN  IF ~IsSome(start) \/ ~IsSome(i)
        THEN [json_str |-> None, inner_str |-> None]
        ELSE [json_str |-> Some(SubSeq(html, str_start, Unwrap(i))),
              inner_str |-> unescape_json(SubSeq(html, str_start + 1, Unwrap(i) - 1))]

\* extract_from_context_json up to `inner_str`: the literal it cuts out of
\* the page and the string that literal denotes, each None where the
\* function returns None; the parse of inner_str is the contextJSON of Page
context_json_string(html) ==
    LET start == find(html, ContextNeedle)
        str_start == Unwrap(start) + Len(ContextNeedle) - 1
        i == closing_quote(html, str_start + 1, FALSE)
    IN  IF ~IsSome(start) \/ i > Len(html)
        THEN [json_str |-> None, inner_str |-> None]
        ELSE [json_str |-> Some(SubSeq(html, str_start, i)),
              inner_str |-> unescape_json(SubSeq(html, str_start + 1, i - 1))]

ContextHtmls ==
    {ContextNeedle \o tail : tail \in Texts({DQ, BS, "a", "n"}, MaxTail)}
        \cup { <<DQ, "c", DQ, ":", "a", DQ>>,
               <<DQ, "a">> \o ContextNeedle \o <<"{", BS, DQ, "k", BS, DQ, ":", "a", "}", DQ, "a", DQ>> }

\* extract_from_context_json runs on a page text
ExtractFromContextJson ==
    /\ out = NotRun
    /\ Unwrap(arg).fn = "extract_from_context_json"
    /\ out' = Ok(context_json_string(Unwrap(arg).x))
    /\ UNCHANGED <<arg, scraper_vars, handler_vars>>


----------------------------------------------------------------------------
(* scraper/embed_page.rs: build_media_list on carousels *)

MaxChildren == 3   \* entries of a child list

ChildImage(url) == JObj([is_video |-> JBool(FALSE), display_url |-> JStr(url)])

ChildVideo(url) ==
    JObj([is_video |-> JBool(TRUE), video_url |-> JStr(url), display_url |-> JStr("poster.jpg")])

\* the entries a child list may hold: with a node, with a null node, without
Edges ==
    { JObj([node |-> ChildImage("1.jpg")]),
      JObj([node |-> ChildVideo("2.mp4")]),
      JObj([node |-> JNull]),
      JObj([cursor |-> JStr("x")]) }

Carousel(edges) ==
    JObj([owner |-> Owner, is_video |-> JBool(FALSE), display_url |-> JStr("cover.jpg"),
          edge_sidecar_to_children |-> JObj([edges |-> edges])])

MediaNodes ==
    {Carousel(JArr(edges)) : edges \in UNION {[1..n -> Edges] : n \in 0..MaxChildren}}
        \cup {Carousel(JNull), ImageNode, VideoNode, ImageNoDims}

\* build_media_list runs on a shortcode_media node
BuildMediaList ==
    /\ out = NotRun
    /\ Unwrap(arg).fn = "build_media_list"
    /\ out' = Ok(build_media_list(Unwrap(arg).x))
    /\ UNCHANGED <<arg, scraper_vars, handler_vars>>


-----------------------------------------------------------------------------
(* utils/instagram.rs: the codec applied in both directions *)

\* longest short numeral and shortcode enumerated in full
MaxCode == 3

\* n copies of x
Pad(x, n) == [i \in 1..n |-> x]

\* u64 values as base-64 numerals: the short ones over the digits 0, 1 and 63,
\* and eleven-digit ones up to u64::MAX = 15 * 64^10 + (64^10 - 1)
MediaIds ==
    {n \in Texts({0, 1, 63}, MaxCode) : n = <<>> \/ n[1] /= 0}
      \cup {<<d>> \o Pad(x, 10) : d \in {1, 15}, x \in {0, 63}}

\* shortcodes: A, B, _ of the alphabet, ! outside it, and U+0141 whose low
\* byte is that of A; eleven and twelve characters around the u64 limit
\* (P is digit 15, Q is digit 16)
Shortcodes ==
    Texts({65, 66, 95, 33, 321}, MaxCode)
      \cup {<<c>> \o Pad(x, 10) : c \in {66, 80, 81}, x \in {65, 95}}
      \cup {<<65, 80>> \o Pad(95, 10), <<66, 80>> \o Pad(95, 10)}

\* mediaid_to_code(n), and the id that code_to_mediaid reads back from it
MediaidToCode ==
    /\ out = NotRun
    /\ Unwrap(arg).fn = "mediaid_to_code"
    /\ LET code == mediaid_to_code(Unwrap(arg).x)
       IN  out' = Ok([code |-> code, id |-> code_to_mediaid(code)])
    /\ UNCHANGED <<arg, scraper_vars, handler_vars>>

\* code_to_mediaid(c), and the shortcode that mediaid_to_code writes for it
CodeToMediaid ==
    /\ out = NotRun
    /\ Unwrap(arg).fn = "code_to_mediaid"
    /\ LET id == code_to_mediaid(Unwrap(arg).x)
       IN  out' = Ok([id |-> id,
                      code |-> IF IsSome(id) THEN Some(mediaid_to_code(Unwrap(id)))
                                             ELSE None])
    /\ UNCHANGED <<arg, scraper_vars, handler_vars>>

-----------------------------------------------------------------------------
(* utils/instagram.rs: extract_post_id on the characters of a path *)

\* longest path enumerated in full
MaxPath == 6

\* path.split('/'): the pieces between slashes, empty ones included
RECURSIVE split(_)
split(text) ==
    LET hits == {i \in 1..Len(text) : text[i] = 47}
    IN  IF hits = {}
        THEN <<text>>
        ELSE <<SubSeq(text, 1, Least(hits) - 1)>>
               \o split(SubSeq(text, Least(hits) + 1, Len(text)))

\* paths over "/", "p" and "x", and paths with the longer markers
PostPaths ==
    Texts({47, 112, 120}, MaxPath)
      \cup {pre \o marker \o mid \o post :
              pre \in {<<>>, <<47>>, <<47, 120, 47>>},
              marker \in {s_reel, s_tv, s_reels, <<112, 112>>},
              mid \in {<<>>, <<47>>, <<47, 47>>},
              post \in {<<>>, <<120>>, <<120, 47, 112>>, <<120, 47, 112, 47, 120, 120>>}}

ExtractPostId ==
    /\ out = NotRun
    /\ Unwrap(arg).fn = "extract_post_id"
    /\ out' = Ok(extract_post_id(split(Unwrap(arg).x)))
    /\ UNCHANGED <<arg, scraper_vars, handler_vars>>

-----------------------------------------------------------------------------
(* templates/embed_html.rs: the media item render_embed puts on the page *)

saturating_sub(a, b) == IF a > b THEN a - b ELSE 0

\* the i-th media item of a record, an image at the url "i"
Slide(i) ==
    [media_type |-> "Image", url |-> <<48 + i>>, thumbnail_url |-> None,
     width |-> None, height |-> None]

\* build_stats_suffix: the "Slide i/n" part
build_stats_suffix(d, media_count, img_index) ==
    IF media_count > 1
    THEN Some(<<IF IsSome(img_index) THEN Unwrap(img_index) ELSE 1, media_count>>)
    ELSE None

\* the parts of the page that depend on img_index: the media item whose tags
\* are written and the slide counter of the title
render_embed(d, host, img_index) ==
    LET media_count == Len(d.media)
        wanted == IF IsSome(img_index) THEN saturating_sub(Unwrap(img_index), 1) ELSE 0
        last == saturating_sub(media_count, 1)
        resolved_index == IF wanted <= last THEN wanted ELSE last
        media_item == IF resolved_index < media_count
                      THEN Some(d.media[resolved_index + 1])
                      ELSE None
    IN  [media_item |-> media_item,
         slide |-> build_stats_suffix(d, media_count, img_index)]

\* records of up to MaxChildren media items, with no img_index or a 1-based
\* one up to one past the last item
EmbedArgs ==
    {[data |-> [post_id |-> ValidId, media |-> [i \in 1..n |-> Slide(i)]],
      host |-> <<104>>, img_index |-> index] :
        n \in 0..MaxChildren,
        index \in {None} \cup {Some(i) : i \in 1..(MaxChildren + 1)}}

RenderEmbed ==
    /\ out = NotRun
    /\ Unwrap(arg).fn = "render_embed"
    /\ out' = Ok(LET a == Unwrap(arg).x IN render_embed(a.data, a.host, a.img_index))
    /\ UNCHANGED <<arg, scraper_vars, handler_vars>>

-----------------------------------------------------------------------------
(* utils/escape.rs and scraper/embed_page.rs: HTML entities.  A text is a
   sequence of one-character strings. *)

\* longest text enumerated in full
MaxText == 4

e_amp == <<"&", "a", "m", "p", ";">>
e_lt == <<"&", "l", "t", ";">>
e_gt == <<"&", "g", "t", ";">>
e_quot == <<"&", "q", "u", "o", "t", ";">>
e_x27 == <<"&", "#", "x", "2", "7", ";">>
e_39 == <<"&", "#", "3", "9", ";">>

\* the match of escape_html, one character at a time
escape_html(s) ==
    LET entity(c) == CASE c = "&" -> e_amp
                       [] c = "<" -> e_lt
                       [] c = ">" -> e_gt
                       [] c = DQ -> e_quot
                       [] c = "'" -> e_x27
                       [] OTHER -> <<c>>
        RECURSIVE from(_)
        from(i) == IF i > Len(s) THEN <<>> ELSE entity(s[i]) \o from(i + 1)
    IN  from(1)

\* str::replace: every non-overlapping match, leftmost first
RECURSIVE replace(_, _, _)
replace(s, pat, to) ==
    IF Len(s) < Len(pat)
    THEN s
    ELSE IF SubSeq(s, 1, Len(pat)) = pat
         THEN to \o replace(SubSeq(s, Len(pat) + 1, Len(s)), pat, to)
         ELSE <<Head(s)>> \o replace(Tail(s), pat, to)

\* six replacements over the whole text, in the order written, each on the
\* result of the one before
unescape_html_entities(s) ==
    replace(replace(replace(replace(replace(replace(s,
        e_amp, <<"&">>), e_lt, <<"<">>), e_gt, <<">">>), e_quot, <<DQ>>),
        e_x27, <<"'">>), e_39, <<"'">>)

\* texts over the characters of "&lt;" and "<", and one with every character
\* that escape_html rewrites
PlainTexts ==
    Texts({"&", "l", "t", ";", "<"}, MaxText)
      \cup {<<"<", "a", ">", DQ, "&", "'", "a">>}

\* escape_html(s), and what unescape_html_entities makes of it
UnescapeHtmlEntities ==
    /\ out = NotRun
    /\ Unwrap(arg).fn = "unescape_html_entities"
    /\ LET escaped == escape_html(Unwrap(arg).x)
       IN  out' = Ok([escaped |-> escaped, unescaped |-> unescape_html_entities(escaped)])
    /\ UNCHANGED <<arg, scraper_vars, handler_vars>>

-----------------------------------------------------------------------------
(* scraper/graphql.rs and scraper/papi.rs: one strategy call, given the
   answer to its direct request and the answer the routed fetcher would get *)

StrategyArgs(answers) ==
    {[id |-> id, e |-> e, direct |-> direct, proxied |-> proxied] :
        id \in PostIds, e \in Envs, direct \in answers, proxied \in answers}

FetchGraphql ==
    /\ out = NotRun
    /\ Unwrap(arg).fn = "fetch_graphql"
    /\ out' = Ok(LET a == Unwrap(arg).x IN fetch_graphql(a.id, a.e, a.direct, a.proxied))
    /\ UNCHANGED <<arg, scraper_vars, handler_vars>>

FetchPapi ==
    /\ out = NotRun
    /\ Unwrap(arg).fn = "fetch_papi"
    /\ out' = Ok(LET a == Unwrap(arg).x IN fetch_papi(a.id, a.e, a.direct, a.proxied))
    /\ UNCHANGED <<arg, scraper_vars, handler_vars>>

----------------------------------------------------------------------------
(* The functions above, each applied once to one of its inputs *)

InitUnits ==
    /\ ScraperIdle({Config(FALSE, FALSE, FALSE)})
    /\ HandlerIdle
    /\ \/ Given("proxy_fetch", ProxyArgs)
       \/ Given("extract_shortcode_media_json", ShortcodeHtmls)
       \/ Given("extract_from_context_json", ContextHtmls)
       \/ Given("build_media_list", MediaNodes)
       \/ Given("mediaid_to_code", MediaIds)
       \/ Given("code_to_mediaid", Shortcodes)
       \/ Given("extract_post_id", PostPaths)
       \/ Given("render_embed", EmbedArgs)
       \/ Given("unescape_html_entities", PlainTexts)
       \/ Given("fetch_graphql", StrategyArgs(GraphqlResponses))
       \/ Given("fetch_papi", StrategyArgs(PapiResponses))

NextUnits ==
    \/ ProxyFetch
    \/ ExtractShortcodeMediaJson
    \/ ExtractFromContextJson
    \/ BuildMediaList
    \/ MediaidToCode
    \/ CodeToMediaid
    \/ ExtractPostId
    \/ RenderEmbed
    \/ UnescapeHtmlEntities
    \/ FetchGraphql
    \/ FetchPapi

SpecUnits == InitUnits /\ [][NextUnits]_vars

\* the function fn has run; its argument
Applied(fn) == out /= NotRun /\ Unwrap(arg).fn = fn

Input == Unwrap(arg).x

----------------------------------------------------------------------------
(* Properties of the routed fetcher *)

\* C16: proxy_fetch goes through the relay, a POST to the fixed relay
\* endpoint with a Bearer authorization header, if and only if both
\* PROXY_USERNAME and PROXY_PASSWORD are configured; otherwise it sends the
\* request to the target URL with the caller's method, headers and body.
C16_RelayIffBoth ==
    Applied("proxy_fetch") =>
        LET a == Input
            sends == out.val
            both == IsSome(a.username) /\ IsSome(a.password)
        IN  /\ both <=> sends.url = RelayEndpoint
            /\ both => /\ sends.method = "POST"
                       /\ sends.headers["Authorization"] = <<"Bearer", Unwrap(a.password)>>
                       /\ Unwrap(sends.body).url = a.target_url
            /\ ~both => sends = HttpRequest(a.target_url, a.method, a.headers, a.body)

\* with only the user name configured the POST with its headers and body
\* went to the target itself
C16_Witness ==
    /\ Applied("proxy_fetch")
    /\ IsSome(Input.username) /\ ~IsSome(Input.password)
    /\ Input.method = "POST"
    /\ IsSome(Input.body)
    /\ out.val.url = Input.target_url

----------------------------------------------------------------------------
(* Properties of the scanners *)

Greatest(S) == CHOOSE i \in S : \A j \in S : j <= i

\* the length of the run of backslashes that ends just before position k of
\* the text s, counted no further back than position o (exclusive)
BackslashRun(s, o, k) ==
    (k - 1) - Greatest({j \in o..(k - 1) : j = o \/ s[j] /= BS})

\* the quote that ends the string literal opened at o: the first quote after
\* an even run of backslashes; Len(s) + 1 when the literal is not ended
Closer(s, o) ==
    LET ends == {k \in (o + 1)..Len(s) : s[k] = DQ /\ BackslashRun(s, o, k) % 2 = 0}
    IN  IF ends = {} THEN Len(s) + 1 ELSE Least(ends)

\* the string literals of s from position `from` on, as <<open, close>>
RECURSIVE Literals(_, _)
Literals(s, from) ==
    LET o == find_char(s, from, DQ)
    IN  IF ~IsSome(o)
        THEN {}
        ELSE {<<Unwrap(o), Closer(s, Unwrap(o))>>}
                 \cup Literals(s, Closer(s, Unwrap(o)) + 1)

\* the positions of s that hold the brace ch outside every string literal
Braces(s, ch) ==
    LET lits == Literals(s, 1)
    IN  {k \in 1..Len(s) : s[k] = ch /\ \A l \in lits : ~(l[1] < k /\ k < l[2])}

\* the positions of s at which the braces before and at them are balanced
Balanced(s) ==
    LET opens == Braces(s, "{")
        closes == Braces(s, "}")
    IN  {k \in 1..Len(s) :
            Cardinality({j \in opens : j <= k}) = Cardinality({j \in closes : j <= k})}

\* the text from the first '{' after the needle to the end of the page
ObjectText(html) ==
    LET start == find(html, ShortcodeNeedle)
        obj_start == IF IsSome(start)
                     THEN find_char(html, Unwrap(start) + Len(ShortcodeNeedle), "{")
                     ELSE None
    IN  IF IsSome(obj_start)
        THEN Some(SubSeq(html, Unwrap(obj_start), Len(html)))
        ELSE None

\* C17: extract_shortcode_media_json returns the text from the first '{'
\* after "shortcode_media": to the '}' that first brings the brace depth,
\* counted outside string literals, to zero; braces inside string literals,
\* also after escaped quotes or backslashes, never change the depth; when
\* the depth never returns to zero it returns nothing.
C17_BalancedObject ==
    Applied("extract_shortcode_media_json") =>
        LET s == ObjectText(Input)
        IN  out.val = IF IsSome(s) /\ Balanced(Unwrap(s)) /= {}
                      THEN Some(SubSeq(Unwrap(s), 1, Least(Balanced(Unwrap(s)))))
                      ELSE None

\* the object {"owner":{"username":"a}b"},"is_video":false}, with text
\* around it, is returned up to its final brace
C17_Witness ==
    /\ Applied("extract_shortcode_media_json")
    /\ out = Ok(Some(OwnerExample))
    /\ Input = <<"{", "a">> \o ShortcodeNeedle \o OwnerExample \o <<"}", "a">>

\* serde_json::to_string of a string, without the quotes around it
RECURSIVE EscapeJson(_)
EscapeJson(chars) ==
    IF chars = <<>>
    THEN <<>>
    ELSE (CASE chars[1] \in {DQ, BS} -> <<BS, chars[1]>>
            [] chars[1] = "NL" -> <<BS, "n">>
            [] OTHER -> <<chars[1]>>) \o EscapeJson(Tail(chars))

\* C18: extract_from_context_json takes the literal that runs from the
\* opening quote of the contextJSON value to the first unescaped quote (a
\* quote after an odd-length run of backslashes is skipped, one after an
\* even-length run ends the literal) and unescapes it; when no quote ends
\* the literal it yields nothing.
C18_ContextLiteral ==
    Applied("extract_from_context_json") =>
        LET html == Input
            start == find(html, ContextNeedle)
            o == Unwrap(start) + Len(ContextNeedle) - 1
        IN  IF ~IsSome(start) \/ Closer(html, o) > Len(html)
            THEN out.val = [json_str |-> None, inner_str |-> None]
            ELSE /\ out.val.json_str = Some(SubSeq(html, o, Closer(html, o)))
                 /\ IF IsSome(out.val.inner_str)
                    THEN EscapeJson(Unwrap(out.val.inner_str))
                             = SubSeq(html, o + 1, Closer(html, o) - 1)
                    ELSE \E k \in (o + 1)..(Closer(html, o) - 2) :
                             html[k] = BS /\ html[k + 1] = "a"

\* the literal "a\"\\": the quote after one backslash is skipped, the quote
\* after two ends it
C18_Witness ==
    /\ Applied("extract_from_context_json")
    /\ Input = ContextNeedle \o <<"a", BS, DQ, BS, BS, DQ>>
    /\ out = Ok([json_str |-> Some(<<DQ, "a", BS, DQ, BS, BS, DQ>>),
                 inner_str |-> Some(<<"a", DQ, BS>>)])

----------------------------------------------------------------------------
(* Properties of the extractors *)

\* the child list of a node, when it has one
ChildList(node) == AsArray(AndThenGet(Get(node, "edge_sidecar_to_children"), "edges"))

\* the entries of a child list that carry a `node`
WithNode(children) == {i \in 1..Len(children) : IsSome(Get(children[i], "node"))}

\* C19 as stated: for a node with a child list of N entries build_media_list
\* yields exactly N items, in the order of the entries, and for a node
\* without a child list exactly one; no entry is dropped.
C19_Original ==
    Applied("build_media_list") =>
        LET children == ChildList(Input)
        IN  IF IsSome(children)
            THEN Len(out.val) = Len(Unwrap(children))
            ELSE Len(out.val) = 1

\* C19: for a node with a child list build_media_list yields one item for
\* each entry that carries a `node`, in the order of the entries, and skips
\* the entries that carry none; for a node without a child list it yields
\* exactly the one item of the node itself.
C19_OnePerNode ==
    Applied("build_media_list") =>
        LET children == ChildList(Input)
        IN  IF IsSome(children)
            THEN LET c == Unwrap(children)
                     rank(i) == Cardinality({j \in WithNode(c) : j <= i})
                 IN  /\ Len(out.val) = Cardinality(WithNode(c))
                     /\ \A i \in WithNode(c) :
                            out.val[rank(i)] = media_from_node(Unwrap(Get(c[i], "node")))
            ELSE out.val = <<media_from_node(Input)>>

\* a child list of three entries, the second without a `node`: two items
C19_Witness ==
    /\ Applied("build_media_list")
    /\ IsSome(ChildList(Input))
    /\ Len(Unwrap(ChildList(Input))) = 3
    /\ WithNode(Unwrap(ChildList(Input))) = {1, 3}
    /\ Len(out.val) = 2
    /\ out.val[1].media_type = "Image" /\ out.val[2].media_type = "Video"

\* the embed record of the resolution was shaped by extract_from_html
FromHtml(p) == HasRecord(ret[p].embed) /\ hist[p].path = "html"

\* C20: every record of extract_from_html has exactly one media item, an
\* Image without width, height or thumbnail; so when the page is not
\* video-blocked the orchestrator retains it as the thumbnail-only fallback
\* and does not cache or return it before the query API has been tried.
C20_HtmlIsFallback ==
    \A p \in Procs :
        FromHtml(p) =>
            /\ Len(EmbedData(p).media) = 1
            /\ EmbedData(p).media[1].media_type = "Image"
            /\ EmbedData(p).media[1].width = None
            /\ EmbedData(p).media[1].height = None
            /\ EmbedData(p).media[1].thumbnail_url = None
            /\ ~EmbedBlocked(p) =>
                   /\ is_html_fallback(EmbedData(p))
                   /\ embed_fallback[p] = Some(EmbedData(p))
                   /\ (pc[p] = "set_cached" \/ Done(p)) => Ran(ret[p].graphql)
                   /\ Requests(p, "cache") /= <<>> => Ran(ret[p].graphql)

\* the bare-HTML record came back only after the query API and the private
\* API had both been asked and had returned nothing
C20_Witness ==
    \E p \in Procs :
        /\ FromHtml(p) /\ ~EmbedBlocked(p)
        /\ Done(p) /\ env.IG_COOKIE
        /\ Requests(p, "graphql") /= <<>>
        /\ Requests(p, "papi") /= <<>>
        /\ result[p] = Ok(Some(EmbedData(p)))

-----------------------------------------------------------------------------
(* Properties of the shortcode codec *)

Alphabet == {INSTAGRAM_BASE64[i] : i \in 1..Len(INSTAGRAM_BASE64)}

\* the shortcode mediaid_to_code writes: alphabet characters only, and no
\* leading A (the zero digit) except in the code "A" itself
Canonical(c) ==
    /\ c /= <<>>
    /\ \A i \in 1..Len(c) : c[i] \in Alphabet
    /\ c = <<65>> \/ c[1] /= 65

\* reading back the shortcode of an id gives the id
IdSurvives == Applied("mediaid_to_code") => out.val.id = Some(Input)

\* C21 as stated: code_to_mediaid(mediaid_to_code(n)) = n for every 64-bit n,
\* and mediaid_to_code(code_to_mediaid(c)) = c for every shortcode c that
\* code_to_mediaid accepts.
C21_Original ==
    /\ IdSurvives
    /\ Applied("code_to_mediaid") /\ IsSome(out.val.id) => out.val.code = Some(Input)

\* C21: code_to_mediaid(mediaid_to_code(n)) = n for every 64-bit n, and an
\* accepted shortcode c is written back unchanged exactly when c is
\* canonical (alphabet characters only, no leading "A" unless c is "A").
C21_RoundTrip ==
    /\ IdSurvives
    /\ Applied("code_to_mediaid") /\ IsSome(out.val.id)
          => (out.val.code = Some(Input) <=> Canonical(Input))

\* u64::MAX is written as P__________ and read back, and the canonical
\* shortcode of the same value is accepted and written back
C21_Witness ==
    \/ /\ Applied("mediaid_to_code")
       /\ Len(Input) = 11 /\ Input[1] = 15
       /\ out.val.code = <<80>> \o Pad(95, 10)
       /\ out.val.id = Some(Input)
    \/ /\ Applied("code_to_mediaid")
       /\ Input = <<80>> \o Pad(95, 10)
       /\ out.val.code = Some(Input)

\* C30: code_to_mediaid returns an id only when every character of the
\* shortcode is one of the 64 alphabet symbols and the value fits in 64 bits.
C30_OnlyAlphabet ==
    Applied("code_to_mediaid") /\ IsSome(out.val.id)
        => \A i \in 1..Len(Input) : Input[i] \in Alphabet

-----------------------------------------------------------------------------
(* Properties of extract_post_id *)

\* the segments of a path: its maximal runs of characters other than "/",
\* as pairs of first and last position
Runs(path) ==
    {r \in (1..Len(path)) \X (1..Len(path)) :
        /\ r[1] <= r[2]
        /\ \A k \in r[1]..r[2] : path[k] /= 47
        /\ r[1] = 1 \/ path[r[1] - 1] = 47
        /\ r[2] = Len(path) \/ path[r[2] + 1] = 47}

Earliest(runs) == CHOOSE r \in runs : \A q \in runs : r[1] <= q[1]

\* the segment after the first marker segment, if there is one
AfterFirstMarker(path) ==
    LET markers == {r \in Runs(path) :
                       SubSeq(path, r[1], r[2]) \in {s_p, s_reel, s_tv, s_reels}}
        later == {r \in Runs(path) : r[1] > Earliest(markers)[2]}
    IN  IF markers = {} \/ later = {}
        THEN None
        ELSE Some(SubSeq(path, Earliest(later)[1], Earliest(later)[2]))

\* C22: extract_post_id returns the segment that immediately follows the first
\* segment equal to p, reel, tv or reels, empty segments, trailing slashes and
\* further segments being ignored, and None when the path has no marker
\* segment or nothing follows the marker.
C22_SegmentAfterMarker ==
    Applied("extract_post_id") => out.val = AfterFirstMarker(Input)

\* /p//x/: the empty segment and the trailing slash are ignored
C22_Witness ==
    /\ Applied("extract_post_id")
    /\ Input = <<47, 112, 47, 47, 120, 47>>
    /\ out.val = Some(<<120>>)

-----------------------------------------------------------------------------
(* Properties of render_embed *)

\* C23: render_embed selects the media item by the 1-based img_index; when
\* img_index is absent or greater than the number of media items it uses the
\* first media item.
C23_OutOfRangeFirst ==
    Applied("render_embed") =>
        LET media == Input.data.media
            index == Input.img_index
        IN  out.val.media_item =
                IF media = <<>> THEN None
                ELSE IF IsSome(index) /\ Unwrap(index) \in 1..Len(media)
                     THEN Some(media[Unwrap(index)])
                     ELSE Some(media[1])

-----------------------------------------------------------------------------
(* Properties of the HTML entity functions *)

\* C29: unescape_html_entities decodes each entity exactly once: for every
\* string s, unescape_html_entities(escape_html(s)) = s.
C29_Inverse ==
    Applied("unescape_html_entities") => out.val.unescaped = Input

-----------------------------------------------------------------------------
(* Properties of the direct and routed attempts *)

Both(api) == <<direct_fetch(api), proxy_fetch(api, Input.e)>>

\* the body was read and carries one of the signatures
Signed(r, signatures) ==
    r.send = "ok" /\ IsSome(r.text) /\ \E s \in signatures : Contains(Unwrap(r.text), s)

\* the direct attempt failed, was not a 200, or met a signature
Rejected(r, signatures) ==
    r.send = "err" \/ ~IsSome(r.text) \/ r.status /= 200 \/ Signed(r, signatures)

\* logging the body of the direct answer panics
DirectPanics(r, n) == r.send = "ok" /\ IsSome(r.text) /\ SlicePanics(Unwrap(r.text), n)

-----------------------------------------------------------------------------
(* Further properties of fetch_post_data *)

\* the call has ended with NotFound
NotFound(p) == Done(p) /\ result[p] = Ok(None)

\* the call has ended, after a miss, with a record
Resolved(p) == Done(p) /\ Missed(p) /\ HasRecord(result[p])

\* C25: every record fetch_post_data returns after a cache miss, and so every
\* record it writes to the cache, has at least one media item, whichever
\* strategy produced it.
C25_HasMedia ==
    \A p \in Procs : Resolved(p) => Len(Unwrap(result[p].val).media) >= 1

\* the entry of the post that a lookup at this moment would find
Live(p) == KvGet(kv, cache_key(post_id[p]), now)

\* the call has written nothing to the store, whose entry for the post is as
\* the lookup of the call saw it, or has expired since
NoWrite(p) ==
    /\ Requests(p, "cache") = <<>>
    /\ ret[p].put = NotRun
    /\ IsSome(Live(p)) => Live(p) = hist[p].seen

\* C26 as stated: a NotFound outcome is never cached: the call has performed
\* no cache write and the cache is unchanged, so the next lookup of the same
\* id runs the whole strategy cascade again.
C26_Original ==
    \A p \in Procs :
        NotFound(p) => NoWrite(p) /\ ~HasRecord(get_cached(post_id[p], kv, now, TRUE))

\* C26: a NotFound outcome is never cached: the call has performed no cache
\* write and the cache is unchanged; when the lookup of the call found no
\* entry, the next lookup of the same id finds none either and the cascade
\* runs again.
C26_NotFoundNotCached ==
    \A p \in Procs :
        NotFound(p) =>
            /\ NoWrite(p)
            /\ ret[p].cache = Ok(None) => get_cached(post_id[p], kv, now, TRUE) = Ok(None)

\* a second call ends with NotFound after a miss, the record of the other
\* post still in the store
C26_Witness ==
    \E p \in Procs :
        /\ NotFound(p)
        /\ ret[p].cache = Ok(None)
        /\ calls = 2
        /\ \E id \in PostIds : id /= post_id[p] /\ IsSome(KvGet(kv, cache_key(id), now))

\* C27: each cache entry written by fetch_post_data under the key "post:X"
\* holds a record whose post_id field is X, and every record returned by
\* fetch_post_data(X), from the cache or from a strategy, has post_id = X.
C27_KeyMatchesRecord ==
    /\ \A id \in PostIds :
           IsSome(kv[cache_key(id)]) =>
               AsStr(Get(Unwrap(kv[cache_key(id)]).value, "post_id")) = Some(id)
    /\ \A p \in Procs :
           Done(p) /\ HasRecord(result[p]) => Unwrap(result[p].val).post_id = post_id[p]

\* the second call has cached and returned the record of its post, the store
\* holding the record of the other post from the first call
C27_Witness ==
    \E p \in Procs :
        /\ Done(p)
        /\ ret[p].put = Ok(None)
        /\ Unwrap(result[p].val).post_id = post_id[p]
        /\ \A id \in PostIds : IsSome(KvGet(kv, cache_key(id), now))

\* the outcome of the call is the outcome of its own cascade: one of the
\* records its strategies returned, or NotFound
FromCascade(p) == result[p] \in {Ok(None)} \cup {Ok(r) : r \in OwnRecords(p)}

\* C28: cache failures are non-fatal to a resolution: a cache read that errors
\* (store unavailable or stored value not deserialisable) is handled like a
\* miss, the strategy cascade runs and gives the outcome, and a cache write
\* that errors does not change the record returned.  Both read errors are the
\* one Err of get_cached; every value set_cached stores deserialises, so the
\* read errors that occur here are those of the store.
C28_CacheFailuresNonFatal ==
    \A p \in Procs :
        /\ ret[p].cache = Err =>
              /\ pc[p] = "embed" \/ Ran(ret[p].embed)
              /\ Done(p) => FromCascade(p)
        /\ Done(p) /\ ret[p].put = Err =>
              /\ HasRecord(result[p])
              /\ result[p] = Ok(data[p])
              /\ FromCascade(p)

\* a call whose cache read failed, with the entry of the post in the store,
\* and whose cache write failed as well, has returned the record of its
\* private-API strategy
C28_Witness ==
    \E p \in Procs :
        /\ Done(p)
        /\ ret[p].cache = Err /\ IsSome(hist[p].seen)
        /\ ret[p].put = Err
        /\ HasRecord(ret[p].papi) /\ result[p] = Ok(ret[p].papi.val)

====
